---- MODULE Spec2Model ----
(***************************************************************************)
(* Region Filter of the DS9-regions notebook                               *)
(* (notebooks/DrizzlePac/use_ds9_regions_in_tweakreg): a detected-source   *)
(* list is filtered against an ordered list of DS9 regions, each tagged    *)
(* include (no symbol) or exclude (minus sign).  The notebook calls        *)
(* tweakreg.TweakReg(..., exclusions=<file>) and documents the semantics   *)
(* in its markdown cells; the geometry tests, the validation and the       *)
(* output assembly are taken from spec.md sections 3, 4.1 and 7.           *)
(*                                                                         *)
(* Geometry is integer pixel geometry on a small grid; rotation angles are *)
(* restricted to 0 and 90 degrees so that every test is exact.             *)
(***************************************************************************)
EXTENDS Integers, Sequences, FiniteSets

VARIABLES
    sources,    \* the source catalog of the call: sequence of Source
    regions,    \* the Region List of the call: sequence of Region, file order
    pc,         \* "start" | "point" | "walk" | "done"
    default,    \* default membership computed once up front (TRUE = included)
    i,          \* index of the source being evaluated
    j,          \* order_index of the next region to apply to sources[i]
    state,      \* current membership state of sources[i] (TRUE = included)
    verdicts,   \* terminal state of every source evaluated so far
    out,        \* output under construction
    result,     \* "none" | "ok" | "InvalidRegionError" | "InvalidSourceError"
    returned    \* the source list handed back to the caller (only when "ok")

filterVars == <<sources, regions, pc, default, i, j, state, verdicts, out,
                result, returned>>

\* reading a DS9 region file into a Region List
VARIABLES
    rfile,      \* the lines of the region file, in file order
    rpos,       \* number of the next line to read
    rlist,      \* the Region List read so far
    rignored    \* number of shapes ignored so far (unsupported kinds)

parseVars == <<rfile, rpos, rlist, rignored>>

ParseIdle == rfile = <<>> /\ rpos = 1 /\ rlist = <<>> /\ rignored = 0

\* applying the file given as `exclusions` to the catalogs of a TweakReg run
VARIABLES
    assoc,      \* the lines of the exclusions file, each a sequence of tokens
    catalogs,   \* detected sources of every (image, extension)
    outcat,     \* the catalog written for every (image, extension) done
    todo        \* the (image, extension) pairs still to be done

assocVars == <<assoc, catalogs, outcat, todo>>

AssocIdle == assoc = <<>> /\ catalogs = <<>> /\ outcat = <<>> /\ todo = {}

\* evaluation of the points by concurrent workers
VARIABLES
    wj,         \* per source: order_index of the next region of its worker
    wst         \* per source: current membership state held by its worker

concVars == <<wj, wst>>

ConcIdle == wj = <<>> /\ wst = <<>>

\* the cells of the DS9-regions notebook
VARIABLES
    hdrwcs,     \* WCS held in the header of each FLC file
    history     \* the TweakReg cells run so far, in order

nbVars == <<hdrwcs, history>>

NbIdle == hdrwcs = <<>> /\ history = <<>>

\* the shift-file check cell of the sparse-field notebook
VARIABLES
    shift,        \* the lines of shift814_flc_test1.txt
    line_number,  \* enumerate(shift, start=1): number of the line in hand
    spc,          \* "check" | "raised" | "passed" | "later"
    message       \* the line number reported by the ValueError, 0 if none

shiftVars == <<shift, line_number, spc, message>>

ShiftIdle == shift = <<>> /\ line_number = 1 /\ spc = "check" /\ message = 0

\* correct_hdrlet_extvers over the FLC files
VARIABLES
    hdulists,      \* per FLC file: its extensions, each with name and EXTVER
    downloaded,    \* per FLC file: its extensions as they were downloaded
    fidx,          \* position in sorted(glob('*flc.fits'))
    hi,            \* enumerate(hdulist): index of the extension in hand
    hdrlet_count,  \* HDRLET extensions met so far in the file in hand
    hpc            \* "files" (between two files) | "loop" (inside one)

hdrVars == <<hdulists, downloaded, fidx, hi, hdrlet_count, hpc>>

HdrIdle ==
    /\ hdulists = <<>> /\ downloaded = <<>> /\ fidx = 1 /\ hi = 0
    /\ hdrlet_count = 0 /\ hpc = "files"

\* the headerlet cells of the alternate-WCS notebook, on one FLC file
VARIABLES
    wfile,         \* the extensions of `filename`: name, EXTVER, WCSNAME
    new_wcsnames,  \* the list returned by get_hdrlet_wcsnames(filename)
    chosen_ext,    \* the EXTVER chosen for hdrext=('HDRLET', chosen_ext)
    wanted,        \* the WCSNAME chosen_ext was looked up for, "" if none
    restored,      \* the hdrext EXTVER of the last restore, 0 if none
    printed,       \* the EXTVER printed as the desired extension, 0 if none
    wpc,           \* "start" | "names" | "cells" | "ValueError"
    wcells         \* number of cells run after get_hdrlet_wcsnames

wcsVars == <<wfile, new_wcsnames, chosen_ext, wanted, restored, printed, wpc,
             wcells>>

WcsIdle ==
    /\ wfile = <<>> /\ new_wcsnames = <<>> /\ chosen_ext = 0 /\ wanted = ""
    /\ restored = 0 /\ printed = 0 /\ wpc = "start" /\ wcells = 0

\* the AstroDrizzle cells of the alternate-WCS notebook
VARIABLES
    flcs,             \* sorted(glob('*flc.fits')) with ASN_ID and ROOTNAME
    uncommented,      \* the override line that is uncommented, or "none"
    asn_dict,         \* the dictionary, as its (key, list) items in order
    dpos,             \* position of the loop that fills asn_dict
    selected_params,  \* the dictionary of that name, <<>> before it is set
    input_images,     \* the list of that name in the drizzle loop
    dkey,             \* position of the drizzle loop in asn_dict
    calls,            \* the AstroDrizzle calls made so far
    dpc               \* "fill" | "params" | "loop" | "getvals" | "drizzle"

drzVars == <<flcs, uncommented, asn_dict, dpos, selected_params, input_images,
             dkey, calls, dpc>>

DrzIdle ==
    /\ flcs = <<>> /\ uncommented = "none" /\ asn_dict = <<>> /\ dpos = 1
    /\ selected_params = <<>> /\ input_images = <<>> /\ dkey = 1
    /\ calls = <<>> /\ dpc = "fill"

\* the alignment cells of the sparse-field notebook
VARIABLES
    scell,      \* the next cell: 1, 3, 5 = TweakReg test 1, 2, 3; 2, 4, 6 =
                \* the rename cell after it; 7 = final TweakReg run;
                \* 8 = AstroDrizzle; 9 = past it
    sdir,       \* the png files of the directory: name, the TweakReg run
                \* that wrote the plot, the number of times it was renamed
    plotted,    \* the (run, image) pairs for which a plot was written
    flcwcs,     \* the WCS in the headers of the FLC files
    drzwcs      \* the header WCS AstroDrizzle was run on, "none" before

sparseVars == <<scell, sdir, plotted, flcwcs, drzwcs>>

SparseIdle ==
    /\ scell = 1 /\ sdir = {} /\ plotted = {} /\ flcwcs = "original"
    /\ drzwcs = "none"

\* the state of the notebook cells modelled further down
moreVars == <<wcsVars, drzVars, sparseVars>>

MoreIdle == WcsIdle /\ DrzIdle /\ SparseIdle

vars == <<filterVars, parseVars, assocVars, concVars, nbVars, shiftVars,
          hdrVars, moreVars>>

\* what the steps of one component leave alone
nonFilterVars == <<parseVars, assocVars, concVars, nbVars, shiftVars, hdrVars,
                   moreVars>>

NonFilterIdle ==
    ParseIdle /\ AssocIdle /\ ConcIdle /\ NbIdle /\ ShiftIdle /\ HdrIdle
    /\ MoreIdle

FilterIdle ==
    /\ sources = <<>> /\ regions = <<>> /\ pc = "start" /\ default = TRUE
    /\ i = 1 /\ j = 1 /\ state = TRUE /\ verdicts = <<>> /\ out = <<>>
    /\ result = "none" /\ returned = <<>>

----------------------------------------------------------------------------
(* Bounds *)

MaxSources == 2
MaxRegions == 3
MaxBoundaryRegions == 2
MaxLines == 3
MaxWorkers == 2
MaxConcRegions == 2
MaxRuns == 5
MaxShiftLines == 3
MaxHdus == 3
MaxHdrlets == 3
MaxCells == 4
MaxFlcs == 3

\* regions of a list that is compared with its rearrangements
MaxRelatedRegions == 3

----------------------------------------------------------------------------
(* Data model: Source and Region *)

Source(x, y, flux, id) ==
    [x |-> x, y |-> y, flux |-> flux, id |-> id, finite |-> TRUE]

\* a catalog row whose coordinates are not finite numbers
NonFiniteSource(flux, id) ==
    [x |-> 0, y |-> 0, flux |-> flux, id |-> id, finite |-> FALSE]

Shape(kind, cx, cy, r, rx, ry, w, h, angle, pts, finite) ==
    [kind |-> kind, cx |-> cx, cy |-> cy, r |-> r, rx |-> rx, ry |-> ry,
     w |-> w, h |-> h, angle |-> angle, pts |-> pts, finite |-> finite]

circle(cx, cy, r) == Shape("circle", cx, cy, r, 0, 0, 0, 0, 0, <<>>, TRUE)

ellipse(cx, cy, rx, ry, angle) ==
    Shape("ellipse", cx, cy, 0, rx, ry, 0, 0, angle, <<>>, TRUE)

box(cx, cy, w, h, angle) ==
    Shape("box", cx, cy, 0, 0, 0, w, h, angle, <<>>, TRUE)

polygon(pts) == Shape("polygon", 0, 0, 0, 0, 0, 0, 0, 0, pts, TRUE)

\* a shape whose center is not a finite number
NonFiniteShape(shape) == [shape EXCEPT !.finite = FALSE]

\* a Region is a shape with its polarity; its order_index is its position
\* in the Region List
Region(shape, is_exclusion) ==
    [shape |-> shape, is_exclusion |-> is_exclusion]

----------------------------------------------------------------------------
(* Point-in-shape tests, boundary inclusive *)

Abs(n) == IF n < 0 THEN 0 - n ELSE n

Min(a, b) == IF a < b THEN a ELSE b

Max(a, b) == IF a < b THEN b ELSE a

\* the circle is taken as open: a point at distance r is outside
ContainsCircle_Strict(s, x, y) ==
    LET dx == x - s.cx
        dy == y - s.cy
    IN  dx * dx + dy * dy < s.r * s.r

\* circle: Euclidean distance from center <= radius (compared squared)
ContainsCircle(s, x, y) ==
    LET dx == x - s.cx
        dy == y - s.cy
    IN  dx * dx + dy * dy <= s.r * s.r

\* ellipse: (u/rx)^2 + (v/ry)^2 <= 1 in the ellipse's rotated frame,
\* cross-multiplied; a rotation by 90 degrees exchanges the two axes
ContainsEllipse(s, x, y) ==
    LET dx == x - s.cx
        dy == y - s.cy
        u  == IF s.angle = 90 THEN dy ELSE dx
        v  == IF s.angle = 90 THEN dx ELSE dy
    IN  u * u * s.ry * s.ry + v * v * s.rx * s.rx
            <= s.rx * s.rx * s.ry * s.ry

\* box: point taken into the box's rotated frame, then the half-width and
\* half-height test (doubled to stay in integers)
ContainsBox(s, x, y) ==
    LET dx == x - s.cx
        dy == y - s.cy
        u  == IF s.angle = 90 THEN dy ELSE dx
        v  == IF s.angle = 90 THEN dx ELSE dy
    IN  2 * Abs(u) <= s.w /\ 2 * Abs(v) <= s.h

\* the point lies on the closed segment a-b
OnEdge(a, b, x, y) ==
    /\ (b[1] - a[1]) * (y - a[2]) = (x - a[1]) * (b[2] - a[2])
    /\ Min(a[1], b[1]) <= x /\ x <= Max(a[1], b[1])
    /\ Min(a[2], b[2]) <= y /\ y <= Max(a[2], b[2])

\* the horizontal ray from the point towards +x crosses the segment a-b
RayCrosses(a, b, x, y) ==
    /\ (a[2] > y) # (b[2] > y)
    /\ LET t == (b[1] - a[1]) * (y - a[2]) - (x - a[1]) * (b[2] - a[2])
       IN  IF b[2] > a[2] THEN t > 0 ELSE t < 0

\* polygon: ray casting, boundary treated as inside
ContainsPolygon(s, x, y) ==
    LET n       == Len(s.pts)
        nxt(k)  == IF k = n THEN 1 ELSE k + 1
        onEdge  == \E k \in 1..n : OnEdge(s.pts[k], s.pts[nxt(k)], x, y)
        crossed == {k \in 1..n : RayCrosses(s.pts[k], s.pts[nxt(k)], x, y)}
    IN  onEdge \/ Cardinality(crossed) % 2 = 1

\* contains(shape, point): one exhaustive match over the four shape kinds
Contains(reg, src) ==
    LET s == reg.shape
    IN  CASE s.kind = "circle"  -> ContainsCircle(s, src.x, src.y)
          [] s.kind = "ellipse" -> ContainsEllipse(s, src.x, src.y)
          [] s.kind = "box"     -> ContainsBox(s, src.x, src.y)
          [] s.kind = "polygon" -> ContainsPolygon(s, src.x, src.y)

----------------------------------------------------------------------------
(* Validation *)

\* only negative sizes are rejected: a zero radius or dimension passes
ValidRegion_NonNegative(reg) ==
    LET s == reg.shape
    IN  /\ s.finite
        /\ CASE s.kind = "circle"  -> s.r >= 0
             [] s.kind = "ellipse" -> s.rx >= 0 /\ s.ry >= 0
             [] s.kind = "box"     -> s.w >= 0 /\ s.h >= 0
             [] s.kind = "polygon" -> TRUE

\* malformed geometry: non-finite coordinates, zero/negative radius or
\* box dimension
ValidRegion(reg) ==
    LET s == reg.shape
    IN  /\ s.finite
        /\ CASE s.kind = "circle"  -> s.r > 0
             [] s.kind = "ellipse" -> s.rx > 0 /\ s.ry > 0
             [] s.kind = "box"     -> s.w > 0 /\ s.h > 0
             [] s.kind = "polygon" -> TRUE

\* the coordinates of a source are never looked at
ValidSource_Unchecked(src) == TRUE

ValidSource(src) == src.finite

AllValidRegions(regs) == \A k \in 1..Len(regs) : ValidRegion(regs[k])

AllValidSources(srcs) == \A k \in 1..Len(srcs) : ValidSource(srcs[k])

----------------------------------------------------------------------------
(* The per-point two-state machine *)

\* the baseline is taken from the first region of the list only
DefaultMembership_FirstRegion(regs) ==
    IF regs = <<>> THEN TRUE ELSE regs[1].is_exclusion

\* the baseline is excluded whatever the list holds
DefaultMembership_AlwaysExcluded(regs) == FALSE

\* the baseline is included whatever the list holds
DefaultMembership_AlwaysIncluded(regs) == TRUE

\* default membership: excluded as soon as the list holds one inclusion
\* region anywhere, included when it holds exclusion regions only
DefaultMembership(regs) ==
    ~ \E k \in 1..Len(regs) : ~ regs[k].is_exclusion

\* inclusion regions are intersected: an inclusion region that does not
\* contain the point excludes it
ApplyRegion_Intersect(st, reg, src) ==
    IF Contains(reg, src) THEN ~ reg.is_exclusion
    ELSE st /\ reg.is_exclusion

\* regions only ever mask: an inclusion region cannot bring back a point
ApplyRegion_AndMask(st, reg, src) ==
    IF Contains(reg, src) THEN st /\ ~ reg.is_exclusion ELSE st

\* a region that contains the point reverses the state the point is in
ApplyRegion_Toggle(st, reg, src) ==
    IF Contains(reg, src) THEN ~ st ELSE st

\* one transition: a region that contains the point sets the state to its
\* polarity, a region that does not contain it leaves the state alone
ApplyRegion(st, reg, src) ==
    IF Contains(reg, src) THEN ~ reg.is_exclusion ELSE st

\* every source is emitted, whatever its verdict
Emit_Always(o, src, st) == Append(o, src)

\* kept sources are put in front: the output comes out reversed
Emit_Prepend(o, src, st) == IF st THEN <<src>> \o o ELSE o

\* kept sources are written out in 0-based pixel coordinates
Emit_ZeroBased(o, src, st) ==
    IF st THEN Append(o, [src EXCEPT !.x = src.x - 1, !.y = src.y - 1])
    ELSE o

\* output assembly: a source whose verdict is included goes to the end of
\* the output, so the output keeps the order of the input
Emit(o, src, st) == IF st THEN Append(o, src) ELSE o

----------------------------------------------------------------------------
(* Inputs of the model *)

\* the four shape kinds of the notebook's region file, on a 0..6 pixel grid
TheCircle == circle(2, 2, 2)

TheBox == box(4, 2, 4, 2, 0)

TheEllipse == ellipse(2, 4, 2, 1, 0)

ThePolygon == polygon(<< <<3, 3>>, <<6, 3>>, <<6, 6>> >>)

ValidShapes == {TheCircle, TheBox, TheEllipse, ThePolygon}

\* malformed geometry: zero radius, negative box dimension, non-finite center
InvalidShapes == {circle(2, 2, 0), box(4, 2, 0 - 4, 2, 0),
                  NonFiniteShape(TheEllipse)}

\* lines of a region file: every valid shape with and without the minus
\* sign; malformed shapes as exclusion (box) or inclusion (the others)
RegionPool ==
    {Region(s, e) : s \in ValidShapes, e \in BOOLEAN}
        \cup {Region(s, s.kind = "box") : s \in InvalidShapes}

\* catalog rows (x, y, flux, id): inside circle and box, inside the polygon
\* only, outside every shape, inside circle and ellipse, and a row whose
\* coordinates are not finite
SourcePool ==
    {Source(3, 2, 10, 1), Source(5, 4, 20, 2), Source(0, 6, 30, 3),
     Source(2, 4, 40, 4), NonFiniteSource(50, 5)}

SeqsUpTo(S, n) == UNION {[1..m -> S] : m \in 0..n}

----------------------------------------------------------------------------
(* filter as a function: the same steps, composed *)

RECURSIVE Walk(_, _, _, _)
\* the state of src after the regions k..Len(regs) have been applied, in
\* ascending order_index, to a point whose state before was st
Walk(st, regs, src, k) ==
    IF k > Len(regs) THEN st
    ELSE Walk(ApplyRegion(st, regs[k], src), regs, src, k + 1)

Verdict(src, regs) == Walk(DefaultMembership(regs), regs, src, 1)

RECURSIVE Collect(_, _, _, _)
Collect(o, srcs, regs, k) ==
    IF k > Len(srcs) THEN o
    ELSE Collect(Emit(o, srcs[k], Verdict(srcs[k], regs)), srcs, regs, k + 1)

\* filter(sources, regions) for inputs on which the call succeeds
filter(srcs, regs) ==
    IF regs = <<>> THEN srcs ELSE Collect(<<>>, srcs, regs, 1)

----------------------------------------------------------------------------
(* Reading a DS9 region file *)

\* one line of a region file: an optional minus sign, a leading word (a
\* shape name, "#" for a comment line, "global", or the coordinate-system
\* declaration "image") and the numbers between the parentheses
Line(sign, word, args) == [sign |-> sign, word |-> word, args |-> args]

\* the shapes TweakReg allows; all other shapes are ignored
SupportedShapes == {"circle", "ellipse", "polygon", "box"}

\* comment lines, the global attribute line, the coordinate-system line
NonShapeWords == {"#", "global", "image"}

\* polygon(x1,y1,...,xn,yn): the flat coordinate list taken in pairs
Pairs(a) == [k \in 1..(Len(a) \div 2) |-> <<a[2 * k - 1], a[2 * k]>>]

\* the shape a supported shape line stands for
ShapeOf(l) ==
    CASE l.word = "circle"  -> circle(l.args[1], l.args[2], l.args[3])
      [] l.word = "ellipse" ->
            ellipse(l.args[1], l.args[2], l.args[3], l.args[4], l.args[5])
      [] l.word = "box"     ->
            box(l.args[1], l.args[2], l.args[3], l.args[4], l.args[5])
      [] l.word = "polygon" -> polygon(Pairs(l.args))

\* the polarity of a region is read off the sign only
RegionOf_SignIgnored(l) == Region(ShapeOf(l), FALSE)

\* minus sign: exclusion region; no symbol: inclusion region
RegionOf(l) == Region(ShapeOf(l), l.sign = "-")

RECURSIVE ParseFrom(_, _, _)
ParseFrom(lines, k, acc) ==
    IF k > Len(lines) THEN acc
    ELSE ParseFrom(lines, k + 1,
                   IF lines[k].word \in SupportedShapes
                   THEN Append(acc, RegionOf(lines[k])) ELSE acc)

\* the Region List of a whole file
ParseFile(lines) == ParseFrom(lines, 1, <<>>)

\* lines of the notebook's region files, on the model's grid, and two
\* shapes TweakReg does not allow (one unsigned, one with a minus sign)
LinePool ==
    {Line("", "#", <<>>), Line("", "global", <<>>), Line("", "image", <<>>),
     Line("", "circle", <<2, 2, 2>>), Line("-", "circle", <<2, 2, 2>>),
     Line("", "box", <<4, 2, 4, 2, 0>>), Line("-", "box", <<4, 2, 4, 2, 0>>),
     Line("", "ellipse", <<2, 4, 2, 1, 0>>),
     Line("-", "polygon", <<3, 3, 6, 3, 6, 6>>),
     Line("", "line", <<0, 0, 6, 6>>), Line("-", "text", <<3, 2>>)}

InitParse ==
    /\ rfile \in SeqsUpTo(LinePool, MaxLines)
    /\ rpos = 1
    /\ rlist = <<>>
    /\ rignored = 0
    /\ FilterIdle /\ AssocIdle /\ ConcIdle /\ NbIdle /\ ShiftIdle /\ HdrIdle
    /\ MoreIdle

nonParseVars == <<filterVars, assocVars, concVars, nbVars, shiftVars, hdrVars,
                  moreVars>>

\* a comment, attribute or coordinate-system line is skipped
SkipLine ==
    /\ rpos <= Len(rfile)
    /\ rfile[rpos].word \in NonShapeWords
    /\ rpos' = rpos + 1
    /\ UNCHANGED <<rfile, rlist, rignored>>
    /\ UNCHANGED nonParseVars

\* a supported shape is added to the end of the Region List
AddRegion ==
    /\ rpos <= Len(rfile)
    /\ rfile[rpos].word \in SupportedShapes
    /\ rlist' = Append(rlist, RegionOf(rfile[rpos]))
    /\ rpos' = rpos + 1
    /\ UNCHANGED <<rfile, rignored>>
    /\ UNCHANGED nonParseVars

\* a shape of another kind is kept as a region that contains no point
IgnoreShape_KeepsEmptyRegion ==
    /\ rpos <= Len(rfile)
    /\ rfile[rpos].word \notin SupportedShapes \cup NonShapeWords
    /\ rlist' = Append(rlist, Region(polygon(<<>>), rfile[rpos].sign = "-"))
    /\ rignored' = rignored + 1
    /\ rpos' = rpos + 1
    /\ UNCHANGED rfile
    /\ UNCHANGED nonParseVars

\* a shape of any other kind is ignored: counted, not an error
IgnoreShape ==
    /\ rpos <= Len(rfile)
    /\ rfile[rpos].word \notin SupportedShapes \cup NonShapeWords
    /\ rignored' = rignored + 1
    /\ rpos' = rpos + 1
    /\ UNCHANGED <<rfile, rlist>>
    /\ UNCHANGED nonParseVars

NextParse == SkipLine \/ AddRegion \/ IgnoreShape

SpecParse == InitParse /\ [][NextParse]_vars

----------------------------------------------------------------------------
(* The exclusions file: which region file goes with which extension *)

\* the images of the notebook
Images == {"jcdua3f4q_flc.fits", "jcdua3f8q_flc.fits"}

\* SCI1 and SCI2
Exts == {1, 2}

\* the DS9 region files of the notebook, on the model's grid
RegionFiles ==
    [f \in {"jcdua3f4q_sci1_exclude.reg", "jcdua3f4q_sci1_include.reg"} |->
        IF f = "jcdua3f4q_sci1_exclude.reg"
        THEN <<Line("", "#", <<>>), Line("", "global", <<>>),
               Line("", "image", <<>>),
               Line("-", "polygon", <<3, 3, 6, 3, 6, 6>>),
               Line("-", "ellipse", <<2, 4, 2, 1, 0>>),
               Line("-", "circle", <<2, 2, 2>>),
               Line("-", "box", <<4, 2, 4, 2, 0>>)>>
        ELSE <<Line("", "#", <<>>), Line("", "global", <<>>),
               Line("", "image", <<>>),
               Line("", "polygon", <<3, 3, 6, 3, 6, 6>>),
               Line("", "ellipse", <<2, 4, 2, 1, 0>>),
               Line("", "circle", <<2, 2, 2>>),
               Line("", "box", <<4, 2, 4, 2, 0>>)>>]

\* what may follow the image name on a line of the exclusions file
Tokens == DOMAIN RegionFiles \cup {"None"}

\* the lines an image may have: its name, then at most one token per extension
LinesOf(img) ==
    {<<img>>} \cup {<<img, t>> : t \in Tokens}
              \cup {<<img, t, u>> : t \in Tokens, u \in Tokens}

\* the line of the exclusions file that starts with the image's name
LineFor(file, img) == file[CHOOSE n \in DOMAIN file : file[n][1] = img]

\* a missing token takes the last token of the line
TokenFor_LastRepeats(line, ext) ==
    IF Len(line) >= ext + 1 THEN line[ext + 1]
    ELSE IF Len(line) >= 2 THEN line[Len(line)] ELSE "None"

\* the token for SCI<ext> is the ext-th token after the image name; 'None'
\* is an empty placeholder and a missing token is the same as 'None'
TokenFor(line, ext) ==
    IF Len(line) >= ext + 1 THEN line[ext + 1] ELSE "None"

\* the Region List of an (image, extension): empty when it has no region file
RegionsFor(file, img, ext) ==
    LET t == TokenFor(LineFor(file, img), ext)
    IN  IF t = "None" THEN <<>> ELSE ParseFile(RegionFiles[t])

\* the sources TweakReg detects in every (image, extension)
DetectedCatalogs ==
    [p \in Images \X Exts |->
        IF p[1] = "jcdua3f4q_flc.fits"
        THEN IF p[2] = 1
             THEN <<Source(3, 2, 10, 1), Source(5, 4, 20, 2),
                    Source(0, 6, 30, 3), Source(2, 4, 40, 4)>>
             ELSE <<Source(2, 4, 40, 4), Source(0, 6, 30, 3),
                    Source(3, 2, 10, 1)>>
        ELSE IF p[2] = 1
             THEN <<Source(5, 4, 20, 2), Source(3, 2, 10, 1)>>
             ELSE <<Source(0, 6, 30, 3), Source(5, 4, 20, 2),
                    Source(2, 4, 40, 4)>>]

InitAssoc ==
    /\ \E l1 \in LinesOf("jcdua3f4q_flc.fits"),
          l2 \in LinesOf("jcdua3f8q_flc.fits") : assoc = <<l1, l2>>
    /\ catalogs = DetectedCatalogs
    /\ outcat = [p \in Images \X Exts |-> <<>>]
    /\ todo = Images \X Exts
    /\ FilterIdle /\ ParseIdle /\ ConcIdle /\ NbIdle /\ ShiftIdle /\ HdrIdle
    /\ MoreIdle

\* the catalog of one (image, extension) is filtered with its Region List
ApplyExclusions ==
    \E p \in todo :
        /\ outcat' = [outcat EXCEPT
                        ![p] = filter(catalogs[p],
                                      RegionsFor(assoc, p[1], p[2]))]
        /\ todo' = todo \ {p}
        /\ UNCHANGED <<assoc, catalogs>>
        /\ UNCHANGED <<filterVars, parseVars, concVars, nbVars, shiftVars,
                       hdrVars, moreVars>>

NextAssoc == ApplyExclusions

SpecAssoc == InitAssoc /\ [][NextAssoc]_vars

----------------------------------------------------------------------------
(* filter as a state machine *)

Init ==
    /\ sources \in SeqsUpTo(SourcePool, MaxSources)
    /\ regions \in SeqsUpTo(RegionPool, MaxRegions)
    /\ pc = "start"
    /\ default = TRUE
    /\ i = 1
    /\ j = 1
    /\ state = TRUE
    /\ verdicts = <<>>
    /\ out = <<>>
    /\ result = "none"
    /\ returned = <<>>
    /\ NonFilterIdle

\* an empty region list is taken as "nothing is included"
PassThrough_KeepsNothing ==
    /\ pc = "start"
    /\ regions = <<>>
    /\ verdicts' = [k \in 1..Len(sources) |-> FALSE]
    /\ returned' = <<>>
    /\ result' = "ok"
    /\ pc' = "done"
    /\ UNCHANGED nonFilterVars
    /\ UNCHANGED <<sources, regions, default, i, j, state, out>>

\* step 1: no regions, every source is kept and the catalog is passed through
PassThrough ==
    /\ pc = "start"
    /\ regions = <<>>
    /\ verdicts' = [k \in 1..Len(sources) |-> TRUE]
    /\ returned' = sources
    /\ result' = "ok"
    /\ pc' = "done"
    /\ UNCHANGED nonFilterVars
    /\ UNCHANGED <<sources, regions, default, i, j, state, out>>

\* malformed region geometry aborts the whole call
RaiseInvalidRegion ==
    /\ pc = "start"
    /\ regions # <<>>
    /\ ~ AllValidRegions(regions)
    /\ result' = "InvalidRegionError"
    /\ pc' = "done"
    /\ UNCHANGED nonFilterVars
    /\ UNCHANGED <<sources, regions, default, i, j, state, verdicts, out,
                   returned>>

\* a source with non-finite coordinates aborts the whole call
RaiseInvalidSource ==
    /\ pc = "start"
    /\ regions # <<>>
    /\ ~ AllValidSources(sources)
    /\ result' = "InvalidSourceError"
    /\ pc' = "done"
    /\ UNCHANGED nonFilterVars
    /\ UNCHANGED <<sources, regions, default, i, j, state, verdicts, out,
                   returned>>

\* step 2: the default membership is computed once, from the whole list
Begin ==
    /\ pc = "start"
    /\ regions # <<>>
    /\ AllValidRegions(regions)
    /\ AllValidSources(sources)
    /\ default' = DefaultMembership(regions)
    /\ i' = 1
    /\ pc' = "point"
    /\ UNCHANGED nonFilterVars
    /\ UNCHANGED <<sources, regions, j, state, verdicts, out, result,
                   returned>>

\* step 3: a point starts in the default state, before the first region
StartPoint ==
    /\ pc = "point"
    /\ i <= Len(sources)
    /\ state' = default
    /\ j' = 1
    /\ pc' = "walk"
    /\ UNCHANGED nonFilterVars
    /\ UNCHANGED <<sources, regions, default, i, verdicts, out, result,
                   returned>>

\* step 3: the next region, in ascending order_index, is applied to the point
ApplyNextRegion ==
    /\ pc = "walk"
    /\ j <= Len(regions)
    /\ state' = ApplyRegion(state, regions[j], sources[i])
    /\ j' = j + 1
    /\ UNCHANGED nonFilterVars
    /\ UNCHANGED <<sources, regions, pc, default, i, verdicts, out, result,
                   returned>>

\* the point index is not advanced: the same source is evaluated again
EndPoint_Repeats ==
    /\ pc = "walk"
    /\ j > Len(regions)
    /\ verdicts' = Append(verdicts, state)
    /\ out' = Emit(out, sources[i], state)
    /\ pc' = "point"
    /\ UNCHANGED nonFilterVars
    /\ UNCHANGED <<sources, regions, default, i, j, state, result, returned>>

\* step 3/4: the state after the last region is the point's verdict
EndPoint ==
    /\ pc = "walk"
    /\ j > Len(regions)
    /\ verdicts' = Append(verdicts, state)
    /\ out' = Emit(out, sources[i], state)
    /\ i' = i + 1
    /\ pc' = "point"
    /\ UNCHANGED nonFilterVars
    /\ UNCHANGED <<sources, regions, default, j, state, result, returned>>

\* step 4: the filtered source list is handed back
Return ==
    /\ pc = "point"
    /\ i > Len(sources)
    /\ returned' = out
    /\ result' = "ok"
    /\ pc' = "done"
    /\ UNCHANGED nonFilterVars
    /\ UNCHANGED <<sources, regions, default, i, j, state, verdicts, out>>

Next ==
    \/ PassThrough
    \/ RaiseInvalidRegion
    \/ RaiseInvalidSource
    \/ Begin
    \/ StartPoint
    \/ ApplyNextRegion
    \/ EndPoint
    \/ Return

Spec == Init /\ [][Next]_vars

\* sources that lie exactly on a shape's boundary: on the circle, on the
\* bottom and right edges of the box, on the bottom edge of the polygon
\* (which is the top edge of the box), on the polygon's sloping edge and on
\* a polygon vertex; and a row whose coordinates are not finite
BoundaryPool ==
    {Source(0, 2, 10, 1), Source(4, 1, 20, 2), Source(6, 2, 30, 3),
     Source(5, 3, 40, 4), Source(5, 5, 50, 5), Source(6, 6, 60, 6),
     NonFiniteSource(70, 7)}

\* circle, box and polygon regions of either polarity, and a circle of
\* radius zero
BoundaryRegionPool ==
    {Region(s, e) : s \in {TheCircle, TheBox, ThePolygon}, e \in BOOLEAN}
        \cup {Region(circle(2, 2, 0), FALSE)}

\* a call whose sources lie on shape boundaries
InitBoundary ==
    /\ sources \in SeqsUpTo(BoundaryPool, MaxSources)
    /\ regions \in SeqsUpTo(BoundaryRegionPool, MaxBoundaryRegions)
    /\ pc = "start"
    /\ default = TRUE
    /\ i = 1
    /\ j = 1
    /\ state = TRUE
    /\ verdicts = <<>>
    /\ out = <<>>
    /\ result = "none"
    /\ returned = <<>>
    /\ NonFilterIdle

SpecBoundary == InitBoundary /\ [][Next]_vars

TypeOK ==
    /\ pc \in {"start", "point", "walk", "done"}
    /\ result \in {"none", "ok", "InvalidRegionError", "InvalidSourceError"}
    /\ default \in BOOLEAN /\ state \in BOOLEAN
    /\ i \in 1..(Len(sources) + 1)
    /\ j \in 1..(Len(regions) + 1)
    /\ Len(verdicts) <= Len(sources)
    /\ Len(out) <= Len(sources)

----------------------------------------------------------------------------
(* Points evaluated by concurrent workers, one worker per source *)

\* rows of the catalog given to the workers, one of them not finite
ConcSourcePool ==
    {Source(3, 2, 10, 1), Source(5, 4, 20, 2), Source(0, 6, 30, 3),
     NonFiniteSource(50, 5)}

\* regions given to the workers, one of them malformed
ConcRegionPool ==
    {Region(TheCircle, FALSE), Region(TheBox, TRUE), Region(ThePolygon, FALSE),
     Region(circle(2, 2, 0), TRUE)}

InitConc ==
    /\ sources \in SeqsUpTo(ConcSourcePool, MaxWorkers)
    /\ regions \in SeqsUpTo(ConcRegionPool, MaxConcRegions)
    /\ pc = "start"
    /\ default = TRUE
    /\ i = 1
    /\ j = 1
    /\ state = TRUE
    /\ verdicts = <<>>
    /\ out = <<>>
    /\ result = "none"
    /\ returned = <<>>
    /\ NonFilterIdle

nonConcVars == <<parseVars, assocVars, nbVars, shiftVars, hdrVars, moreVars>>

\* step 2, then one worker per source is created, none of them started
BeginConcurrent ==
    /\ pc = "start"
    /\ regions # <<>>
    /\ AllValidRegions(regions)
    /\ AllValidSources(sources)
    /\ default' = DefaultMembership(regions)
    /\ wj' = [k \in 1..Len(sources) |-> 0]
    /\ wst' = [k \in 1..Len(sources) |-> TRUE]
    /\ pc' = "workers"
    /\ UNCHANGED <<sources, regions, i, j, state, verdicts, out, result,
                   returned>>
    /\ UNCHANGED nonConcVars

\* worker k starts its point in the default state
WorkerStart(k) ==
    /\ pc = "workers"
    /\ wj[k] = 0
    /\ wst' = [wst EXCEPT ![k] = default]
    /\ wj' = [wj EXCEPT ![k] = 1]
    /\ UNCHANGED filterVars
    /\ UNCHANGED nonConcVars

\* the workers share one membership state: worker k continues from the
\* state left by the worker of the first source
WorkerApply_SharedState(k) ==
    /\ pc = "workers"
    /\ wj[k] \in 1..Len(regions)
    /\ wst' = [wst EXCEPT
                 ![k] = ApplyRegion(wst[1], regions[wj[k]], sources[k])]
    /\ wj' = [wj EXCEPT ![k] = wj[k] + 1]
    /\ UNCHANGED filterVars
    /\ UNCHANGED nonConcVars

\* worker k applies its next region, in ascending order_index, to its point
WorkerApply(k) ==
    /\ pc = "workers"
    /\ wj[k] \in 1..Len(regions)
    /\ wst' = [wst EXCEPT
                 ![k] = ApplyRegion(wst[k], regions[wj[k]], sources[k])]
    /\ wj' = [wj EXCEPT ![k] = wj[k] + 1]
    /\ UNCHANGED filterVars
    /\ UNCHANGED nonConcVars

RECURSIVE Gather(_, _, _, _)
\* step 4 over the workers' verdicts, in the order of the input
Gather(o, srcs, sts, k) ==
    IF k > Len(srcs) THEN o
    ELSE Gather(Emit(o, srcs[k], sts[k]), srcs, sts, k + 1)

\* all workers are through the Region List: the output is assembled
Assemble ==
    /\ pc = "workers"
    /\ \A k \in 1..Len(sources) : wj[k] = Len(regions) + 1
    /\ verdicts' = wst
    /\ out' = Gather(<<>>, sources, wst, 1)
    /\ returned' = out'
    /\ result' = "ok"
    /\ pc' = "done"
    /\ UNCHANGED <<sources, regions, default, i, j, state>>
    /\ UNCHANGED <<wj, wst>>
    /\ UNCHANGED nonConcVars

NextConc ==
    \/ PassThrough
    \/ RaiseInvalidRegion
    \/ RaiseInvalidSource
    \/ BeginConcurrent
    \/ \E k \in 1..Len(sources) : WorkerStart(k)
    \/ \E k \in 1..Len(sources) : WorkerApply(k)
    \/ Assemble

SpecConc == InitConc /\ [][NextConc]_vars

----------------------------------------------------------------------------
(* The TweakReg cells of the DS9-regions notebook *)

\* one TweakReg call: the input image, the file given as `exclusions`
\* ("" when the parameter is not given) and the updatehdr parameter
Call(input, exclusions, updatehdr) ==
    [input |-> input, exclusions |-> exclusions, updatehdr |-> updatehdr]

\* the TweakReg calls of the notebook, in the order of their cells
TweakRegCalls ==
    <<Call("jcdua3f4q_flc.fits", "", FALSE),
      Call("jcdua3f4q_flc.fits", "exclusions.txt", FALSE),
      Call("jcdua3f4q_flc.fits", "inclusions.txt", FALSE),
      Call("jcdua3f4q_flc.fits", "inclusions_no_box.txt", FALSE),
      Call("jcdua3f4q_flc.fits", "inclusions_no_box_first.txt", FALSE)>>

\* the header WCS of the FLC files as downloaded
Downloaded == [f \in Images |-> "downloaded"]

InitDS9 ==
    /\ hdrwcs = Downloaded
    /\ history = <<>>
    /\ FilterIdle /\ ParseIdle /\ AssocIdle /\ ConcIdle /\ ShiftIdle
    /\ HdrIdle /\ MoreIdle

\* the fit is written to the header of the input image whatever updatehdr is
RunTweakReg_AlwaysUpdates(c) ==
    /\ Len(history) < MaxRuns
    /\ hdrwcs' = [hdrwcs EXCEPT ![TweakRegCalls[c].input] = "tweaked"]
    /\ history' = Append(history, c)
    /\ UNCHANGED <<filterVars, parseVars, assocVars, concVars, shiftVars,
                   hdrVars, moreVars>>

\* a TweakReg cell is run: the fit is saved to the header of the input image
\* only when updatehdr is set
RunTweakReg(c) ==
    /\ Len(history) < MaxRuns
    /\ hdrwcs' = IF TweakRegCalls[c].updatehdr
                 THEN [hdrwcs EXCEPT ![TweakRegCalls[c].input] = "tweaked"]
                 ELSE hdrwcs
    /\ history' = Append(history, c)
    /\ UNCHANGED <<filterVars, parseVars, assocVars, concVars, shiftVars,
                   hdrVars, moreVars>>

NextDS9 == \E c \in DOMAIN TweakRegCalls : RunTweakReg(c)

SpecDS9 == InitDS9 /\ [][NextDS9]_vars

----------------------------------------------------------------------------
(* The shift-file check cell of the sparse-field notebook *)

\* "nan" in line: the three characters occur next to each other in the line
HasNan(line) ==
    \E k \in 1..(Len(line) - 2) :
        line[k] = "n" /\ line[k + 1] = "a" /\ line[k + 2] = "n"

\* lines a shift file may hold, as sequences of characters: a header
\* comment, a row of numbers, a row with nan, an image name that contains
\* "nan", a row with NaN in capitals, and letters n, a, n that are apart
ShiftLinePool ==
    {<<"#", " ", "n", "a">>,
     <<"f", " ", "0", ".", "1">>,
     <<"f", " ", "n", "a", "n">>,
     <<"n", "a", "n", "o", " ", "0", ".", "1">>,
     <<"f", " ", "N", "a", "N">>,
     <<"n", "a", " ", "n">>}

InitShift ==
    /\ shift \in SeqsUpTo(ShiftLinePool, MaxShiftLines)
    /\ line_number = 1
    /\ spc = "check"
    /\ message = 0
    /\ FilterIdle /\ ParseIdle /\ AssocIdle /\ ConcIdle /\ NbIdle /\ HdrIdle
    /\ MoreIdle

nonShiftVars == <<filterVars, parseVars, assocVars, concVars, nbVars, hdrVars,
                  moreVars>>

\* the line number of the message is counted from 0
RaiseValueError_ZeroBased ==
    /\ spc = "check"
    /\ line_number <= Len(shift)
    /\ HasNan(shift[line_number])
    /\ message' = line_number - 1
    /\ spc' = "raised"
    /\ UNCHANGED <<shift, line_number>>
    /\ UNCHANGED nonShiftVars

\* raise ValueError("nan found in line {} in shift file".format(line_number))
RaiseValueError ==
    /\ spc = "check"
    /\ line_number <= Len(shift)
    /\ HasNan(shift[line_number])
    /\ message' = line_number
    /\ spc' = "raised"
    /\ UNCHANGED <<shift, line_number>>
    /\ UNCHANGED nonShiftVars

\* else: continue
ContinueCheck ==
    /\ spc = "check"
    /\ line_number <= Len(shift)
    /\ ~ HasNan(shift[line_number])
    /\ line_number' = line_number + 1
    /\ UNCHANGED <<shift, spc, message>>
    /\ UNCHANGED nonShiftVars

\* the for loop is exhausted: the cell completes without error
CheckCompletes ==
    /\ spc = "check"
    /\ line_number > Len(shift)
    /\ spc' = "passed"
    /\ UNCHANGED <<shift, line_number, message>>
    /\ UNCHANGED nonShiftVars

\* the next cell of the notebook runs only after the check cell completed
RunLaterCell ==
    /\ spc = "passed"
    /\ spc' = "later"
    /\ UNCHANGED <<shift, line_number, message>>
    /\ UNCHANGED nonShiftVars

NextShift ==
    \/ RaiseValueError
    \/ ContinueCheck
    \/ CheckCompletes
    \/ RunLaterCell

SpecShift == InitShift /\ [][NextShift]_vars

----------------------------------------------------------------------------
(* correct_hdrlet_extvers, called for every FLC file *)

\* sorted(glob.glob('*flc.fits'))
FlcFiles == <<"iepw14g4q_flc.fits", "iepw14g6q_flc.fits">>

\* one extension of a FITS file: its name and the EXTVER of its header
Hdu(name, extver) == [name |-> name, extver |-> extver]

\* extensions a downloaded FLC file may hold: a science array, and
\* headerlets whose EXTVER values repeat, start at 0 or leave gaps
HduPool == {Hdu("SCI", 2), Hdu("HDRLET", 0), Hdu("HDRLET", 1),
            Hdu("HDRLET", 5)}

InitHdrlet ==
    /\ hdulists \in [DOMAIN FlcFiles -> SeqsUpTo(HduPool, MaxHdus)]
    /\ downloaded = hdulists
    /\ fidx = 1
    /\ hi = 0
    /\ hdrlet_count = 0
    /\ hpc = "files"
    /\ FilterIdle /\ ParseIdle /\ AssocIdle /\ ConcIdle /\ NbIdle
    /\ ShiftIdle /\ MoreIdle

nonHdrVars == <<filterVars, parseVars, assocVars, concVars, nbVars, shiftVars,
               moreVars>>

\* correct_hdrlet_extvers(flc_file): the file is opened, hdrlet_count = 0
OpenFile ==
    /\ hpc = "files"
    /\ fidx <= Len(FlcFiles)
    /\ hdrlet_count' = 0
    /\ hi' = 0
    /\ hpc' = "loop"
    /\ UNCHANGED <<hdulists, downloaded, fidx>>
    /\ UNCHANGED nonHdrVars

\* EXTVER is written before the count is incremented
Renumber_BeforeIncrement ==
    /\ hpc = "loop"
    /\ hi < Len(hdulists[fidx])
    /\ hdulists[fidx][hi + 1].name = "HDRLET"
    /\ hdulists' = [hdulists EXCEPT ![fidx][hi + 1].extver = hdrlet_count]
    /\ hdrlet_count' = hdrlet_count + 1
    /\ hi' = hi + 1
    /\ UNCHANGED <<downloaded, fidx, hpc>>
    /\ UNCHANGED nonHdrVars

\* if ext.name == 'HDRLET': hdrlet_count += 1; header['EXTVER'] = hdrlet_count
Renumber ==
    /\ hpc = "loop"
    /\ hi < Len(hdulists[fidx])
    /\ hdulists[fidx][hi + 1].name = "HDRLET"
    /\ hdrlet_count' = hdrlet_count + 1
    /\ hdulists' = [hdulists EXCEPT ![fidx][hi + 1].extver = hdrlet_count']
    /\ hi' = hi + 1
    /\ UNCHANGED <<downloaded, fidx, hpc>>
    /\ UNCHANGED nonHdrVars

\* else: continue
SkipExtension ==
    /\ hpc = "loop"
    /\ hi < Len(hdulists[fidx])
    /\ hdulists[fidx][hi + 1].name # "HDRLET"
    /\ hi' = hi + 1
    /\ UNCHANGED <<hdulists, downloaded, fidx, hdrlet_count, hpc>>
    /\ UNCHANGED nonHdrVars

\* the loop over the extensions is exhausted: the file is closed and the
\* loop over the FLC files goes to the next file
CloseFile ==
    /\ hpc = "loop"
    /\ hi = Len(hdulists[fidx])
    /\ fidx' = fidx + 1
    /\ hpc' = "files"
    /\ UNCHANGED <<hdulists, downloaded, hi, hdrlet_count>>
    /\ UNCHANGED nonHdrVars

NextHdrlet == OpenFile \/ Renumber \/ SkipExtension \/ CloseFile

SpecHdrlet == InitHdrlet /\ [][NextHdrlet]_vars

----------------------------------------------------------------------------
(* The headerlet cells of the alternate-WCS notebook *)

\* one extension of the file: EXTNAME, EXTVER and the WCSNAME of its header
Ext(name, extver, wcsname) ==
    [name |-> name, extver |-> extver, wcsname |-> wcsname]

\* WCS names of the solutions of an image
WcsNames == {"IDC_2731450pi", "IDC_2731450pi-GSC240",
             "IDC_2731450pi-FIT_REL_GAIAeDR3", "OPUS-GSC240"}

\* the characters of a WCS name
Chars(n) ==
    CASE n = "IDC_2731450pi" ->
            <<"I", "D", "C", "_", "2", "7", "3", "1", "4", "5", "0", "p",
            "i">>
      [] n = "IDC_2731450pi-GSC240" ->
            <<"I", "D", "C", "_", "2", "7", "3", "1", "4", "5", "0", "p", "i",
            "-", "G", "S", "C", "2", "4", "0">>
      [] n = "IDC_2731450pi-FIT_REL_GAIAeDR3" ->
            <<"I", "D", "C", "_", "2", "7", "3", "1", "4", "5", "0", "p", "i",
            "-", "F", "I", "T", "_", "R", "E", "L", "_", "G", "A", "I", "A",
            "e", "D", "R", "3">>
      [] n = "OPUS-GSC240" ->
            <<"O", "P", "U", "S", "-", "G", "S", "C", "2", "4", "0">>

\* sub in s, for strings given by their characters
IsIn(sub, s) ==
    \E k \in 0..(Len(s) - Len(sub)) : SubSeq(s, k + 1, k + Len(sub)) = sub

RECURSIVE RenumberFrom(_, _, _)
\* correct_hdrlet_extvers as a function of the extension list: from position
\* k on, with `count` headerlets met before
RenumberFrom(hdulist, k, count) ==
    IF k > Len(hdulist) THEN hdulist
    ELSE IF hdulist[k].name = "HDRLET"
         THEN RenumberFrom([hdulist EXCEPT ![k].extver = count + 1], k + 1,
                           count + 1)
         ELSE RenumberFrom(hdulist, k + 1, count)

\* the cell that should renumber the headerlets is left out
CorrectHdrletExtvers_Skipped(hdulist) == hdulist

CorrectHdrletExtvers(hdulist) == RenumberFrom(hdulist, 1, 0)

\* headerlet.find_headerlet_HDUs(filename, strict=False): the indices of the
\* extensions named HDRLET, ascending (here counted from 1)
FindHeaderletHDUs(hdulist) ==
    {k \in 1..Len(hdulist) : hdulist[k].name = "HDRLET"}

RECURSIVE WcsnamesFrom(_, _, _)
WcsnamesFrom(hdulist, k, acc) ==
    IF k > Len(hdulist) THEN acc
    ELSE WcsnamesFrom(hdulist, k + 1,
                      IF k \in FindHeaderletHDUs(hdulist)
                      THEN Append(acc, hdulist[k].wcsname) ELSE acc)

\* get_hdrlet_wcsnames: WCSNAME of every HDRLET extension, in file order
GetHdrletWcsnamesOf(hdulist) == WcsnamesFrom(hdulist, 1, <<>>)

\* list.index(x), counted from 0 as in Python; defined when x is in the list
Index(list, x) ==
    (CHOOSE k \in 1..Len(list) :
        list[k] = x /\ \A m \in 1..(k - 1) : list[m] # x) - 1

\* the position in the file of the extension (name, extver)
ExtPosition(hdulist, name, extver) ==
    CHOOSE k \in 1..Len(hdulist) :
        /\ hdulist[k].name = name /\ hdulist[k].extver = extver
        /\ \A m \in 1..(k - 1) :
              ~ (hdulist[m].name = name /\ hdulist[m].extver = extver)

HasExt(hdulist, name, extver) ==
    \E k \in 1..Len(hdulist) :
        hdulist[k].name = name /\ hdulist[k].extver = extver

\* fits.getval(filename, 'WCSNAME', ext=('SCI', 1))
CurrentWcs(hdulist) == hdulist[ExtPosition(hdulist, "SCI", 1)].wcsname

\* headerlets a downloaded file may hold; their EXTVER values repeat, start
\* at 0 or leave gaps until correct_hdrlet_extvers has run
HdrletPool ==
    {Ext("HDRLET", 0, "IDC_2731450pi"),
     Ext("HDRLET", 1, "IDC_2731450pi-GSC240"),
     Ext("HDRLET", 1, "IDC_2731450pi-FIT_REL_GAIAeDR3"),
     Ext("HDRLET", 3, "OPUS-GSC240")}

\* the file after the download cells: a science extension with the active
\* solution, then the headerlets, renumbered by correct_hdrlet_extvers
InitWcs ==
    /\ \E h \in SeqsUpTo(HdrletPool, MaxHdrlets) :
          wfile = CorrectHdrletExtvers(
                      <<Ext("SCI", 1, "IDC_2731450pi-FIT_REL_GAIAeDR3")>> \o h)
    /\ new_wcsnames = <<>>
    /\ chosen_ext = 0
    /\ wanted = ""
    /\ restored = 0
    /\ printed = 0
    /\ wpc = "start"
    /\ wcells = 0
    /\ FilterIdle /\ ParseIdle /\ AssocIdle /\ ConcIdle /\ NbIdle
    /\ ShiftIdle /\ HdrIdle /\ DrzIdle /\ SparseIdle

nonWcsVars == <<filterVars, parseVars, assocVars, concVars, nbVars, shiftVars,
               hdrVars, drzVars, sparseVars>>

\* the names the notebook looks up with new_wcsnames.index(name)
LookedUpNames == {"IDC_2731450pi-FIT_REL_GAIAeDR3", "IDC_2731450pi-GSC240",
                  "IDC_2731450pi"}

\* new_wcsnames = get_hdrlet_wcsnames(filename)
GetHdrletWcsnames ==
    /\ wpc = "start"
    /\ new_wcsnames' = GetHdrletWcsnamesOf(wfile)
    /\ wpc' = "names"
    /\ UNCHANGED <<wfile, chosen_ext, wanted, restored, printed, wcells>>
    /\ UNCHANGED nonWcsVars

\* chosen_ext = new_wcsnames.index(name) + 1
ChooseExt(name) ==
    /\ wpc \in {"names", "cells"}
    /\ wcells < MaxCells
    /\ \E k \in 1..Len(new_wcsnames) : new_wcsnames[k] = name
    /\ chosen_ext' = Index(new_wcsnames, name) + 1
    /\ wanted' = name
    /\ wpc' = "cells"
    /\ wcells' = wcells + 1
    /\ UNCHANGED <<wfile, new_wcsnames, restored, printed>>
    /\ UNCHANGED nonWcsVars

\* new_wcsnames.index(name) when the name is not in the list: ValueError
ChooseExtRaises(name) ==
    /\ wpc \in {"names", "cells"}
    /\ wcells < MaxCells
    /\ ~ \E k \in 1..Len(new_wcsnames) : new_wcsnames[k] = name
    /\ wpc' = "ValueError"
    /\ UNCHANGED <<wfile, new_wcsnames, chosen_ext, wanted, restored, printed,
                   wcells>>
    /\ UNCHANGED nonWcsVars

\* the WCS of the SCI extensions is left as it is
RestoreFromHeaderlet_KeepsActive ==
    /\ wpc = "cells"
    /\ wcells < MaxCells
    /\ HasExt(wfile, "HDRLET", chosen_ext)
    /\ restored' = chosen_ext
    /\ wcells' = wcells + 1
    /\ UNCHANGED <<wfile, new_wcsnames, chosen_ext, wanted, printed, wpc>>
    /\ UNCHANGED nonWcsVars

\* headerlet.restore_from_headerlet(filename, hdrext=('HDRLET', chosen_ext),
\* archive=False, force=False): the WCS of the headerlet is applied to all
\* SCI extensions; with archive=False no HDRLET extension is added
RestoreFromHeaderlet ==
    /\ wpc = "cells"
    /\ wcells < MaxCells
    /\ HasExt(wfile, "HDRLET", chosen_ext)
    /\ LET h == wfile[ExtPosition(wfile, "HDRLET", chosen_ext)]
       IN  wfile' = [k \in 1..Len(wfile) |->
                        IF wfile[k].name = "SCI"
                        THEN [wfile[k] EXCEPT !.wcsname = h.wcsname]
                        ELSE wfile[k]]
    /\ restored' = chosen_ext
    /\ wcells' = wcells + 1
    /\ UNCHANGED <<new_wcsnames, chosen_ext, wanted, printed, wpc>>
    /\ UNCHANGED nonWcsVars

\* 'IDC' in wcsname and 'GSC240' in wcsname
IsIdcGsc240(wcsname) ==
    /\ IsIn(<<"I", "D", "C">>, Chars(wcsname))
    /\ IsIn(<<"G", "S", "C", "2", "4", "0">>, Chars(wcsname))

RECURSIVE SelectFrom_NoBreak(_, _, _)
\* the loop without its break: the last match is the one that stays
SelectFrom_NoBreak(list, idx, chosen) ==
    IF idx >= Len(list) THEN chosen
    ELSE SelectFrom_NoBreak(list, idx + 1,
             IF IsIdcGsc240(list[idx + 1]) THEN idx + 1 ELSE chosen)

RECURSIVE SelectFrom(_, _, _)
\* the for loop from 0-based index idx on: chosen_ext after the loop
SelectFrom(list, idx, chosen) ==
    IF idx >= Len(list) THEN chosen
    ELSE IF IsIdcGsc240(list[idx + 1]) THEN idx + 1
         ELSE SelectFrom(list, idx + 1, chosen)

\* the selection cell with a loop that does not stop at the first match
SelectIdcGsc240_NoBreak ==
    /\ wpc = "cells"
    /\ wcells < MaxCells
    /\ chosen_ext' = SelectFrom_NoBreak(new_wcsnames, 0, chosen_ext)
    /\ wanted' = IF \E k \in 1..Len(new_wcsnames) :
                        IsIdcGsc240(new_wcsnames[k])
                 THEN "" ELSE wanted
    /\ printed' = chosen_ext'
    /\ wcells' = wcells + 1
    /\ UNCHANGED <<wfile, new_wcsnames, restored, wpc>>
    /\ UNCHANGED nonWcsVars

\* the selection loop and the print after it
SelectIdcGsc240 ==
    /\ wpc = "cells"
    /\ wcells < MaxCells
    /\ chosen_ext' = SelectFrom(new_wcsnames, 0, chosen_ext)
    /\ wanted' = IF \E k \in 1..Len(new_wcsnames) :
                        IsIdcGsc240(new_wcsnames[k])
                 THEN "" ELSE wanted
    /\ printed' = chosen_ext'
    /\ wcells' = wcells + 1
    /\ UNCHANGED <<wfile, new_wcsnames, restored, wpc>>
    /\ UNCHANGED nonWcsVars

NextWcs ==
    \/ GetHdrletWcsnames
    \/ \E name \in LookedUpNames : ChooseExt(name)
    \/ \E name \in LookedUpNames : ChooseExtRaises(name)
    \/ RestoreFromHeaderlet
    \/ SelectIdcGsc240

SpecWcs == InitWcs /\ [][NextWcs]_vars

----------------------------------------------------------------------------
(* The AstroDrizzle cells of the alternate-WCS notebook *)

\* the header keywords of an FLC file that the cells read
Flc(file, asn_id, rootname) ==
    [file |-> file, asn_id |-> asn_id, rootname |-> rootname]

\* the FLC files in sorted order, with their ROOTNAME
FlcNames ==
    <<Flc("iepw14g4q_flc.fits", "IEPW14030", "iepw14g4q"),
      Flc("iepw14g6q_flc.fits", "IEPW14030", "iepw14g6q"),
      Flc("iepw14g8q_flc.fits", "IEPW14040", "iepw14g8q"),
      Flc("iepw14gaq_flc.fits", "IEPW14040", "iepw14gaq")>>

\* the values ASN_ID may have: an association, or 'NONE' for a file that
\* belongs to none
AsnIds == {"IEPW14030", "IEPW14040", "NONE"}

\* str.lower() on the header values
Lower(str) ==
    CASE str = "IEPW14030" -> "iepw14030"
      [] str = "IEPW14040" -> "iepw14040"
      [] str = "NONE"      -> "none"
      [] OTHER             -> str

\* the key is the header value as it is
AsnKey_NotLowered(flc) ==
    IF flc.asn_id = "NONE" THEN flc.rootname ELSE flc.asn_id

\* asn_id, or rootname when asn_id == 'NONE', in lower case
AsnKey(flc) ==
    Lower(IF flc.asn_id = "NONE" THEN flc.rootname ELSE flc.asn_id)

\* the parameters taken from the MDRIZTAB
KwList == {"driz_sep_bits", "combine_type", "driz_cr_snr", "driz_cr_scale",
           "final_bits"}

\* getMdriztabPars: the recommended values depend on the number of frames
GetMdriztabPars(images) ==
    [k \in KwList |->
        CASE k = "driz_sep_bits" -> "336"
          [] k = "combine_type"  ->
                IF Len(images) < 2 THEN "imedian" ELSE "minmed"
          [] k = "driz_cr_snr"   -> "3.5 3.0"
          [] k = "driz_cr_scale" ->
                IF Len(images) < 2 THEN "1.5 1.2" ELSE "1.2 0.7"
          [] k = "final_bits"    -> "336"]

\* get_vals_from_mdriztab: only the parameters of kw_list
GetValsFromMdriztab(images) ==
    [k \in KwList |-> GetMdriztabPars(images)[k]]

\* the override lines of the drizzle loop, commented out in the notebook
OverrideValue ==
    [k \in KwList |->
        CASE k = "driz_sep_bits" -> "256, 64, 16"
          [] k = "final_bits"    -> "256, 64, 16"
          [] k = "combine_type"  -> "median"
          [] k = "driz_cr_snr"   -> "4.0 3.5"
          [] k = "driz_cr_scale" -> "1.2 1.0"]

\* asn_dict[key]: the list under a key
ItemsOf(dict, key) ==
    IF \E n \in 1..Len(dict) : dict[n].key = key
    THEN dict[CHOOSE n \in 1..Len(dict) : dict[n].key = key].files
    ELSE <<>>

\* asn_dict[key].append(flc) on a defaultdict(list): a new key goes last
AppendTo(dict, key, file) ==
    IF \E n \in 1..Len(dict) : dict[n].key = key
    THEN [n \in 1..Len(dict) |->
             IF dict[n].key = key
             THEN [dict[n] EXCEPT !.files = Append(dict[n].files, file)]
             ELSE dict[n]]
    ELSE Append(dict, [key |-> key, files |-> <<file>>])

\* the downloaded files: iepw14g4q of association IEPW14030, as in the
\* notebook, and up to MaxFlcs - 1 more files of either association or none
InitDrz ==
    /\ \E n \in 1..MaxFlcs :
          \E a \in [2..n -> AsnIds] :
              flcs = [k \in 1..n |->
                         IF k = 1 THEN FlcNames[1]
                         ELSE [FlcNames[k] EXCEPT !.asn_id = a[k]]]
    /\ uncommented \in KwList \cup {"none"}
    /\ asn_dict = <<>>
    /\ dpos = 1
    /\ selected_params = <<>>
    /\ input_images = <<>>
    /\ dkey = 1
    /\ calls = <<>>
    /\ dpc = "fill"
    /\ FilterIdle /\ ParseIdle /\ AssocIdle /\ ConcIdle /\ NbIdle
    /\ ShiftIdle /\ HdrIdle /\ WcsIdle /\ SparseIdle

nonDrzVars == <<filterVars, parseVars, assocVars, concVars, nbVars, shiftVars,
               hdrVars, wcsVars, sparseVars>>

\* one pass of the loop over the FLC files that fills asn_dict
FillAsnDict ==
    /\ dpc = "fill"
    /\ dpos <= Len(flcs)
    /\ asn_dict' = AppendTo(asn_dict, AsnKey(flcs[dpos]), flcs[dpos].file)
    /\ dpos' = dpos + 1
    /\ UNCHANGED <<flcs, uncommented, selected_params, input_images, dkey,
                   calls, dpc>>
    /\ UNCHANGED nonDrzVars

\* selected_params = get_vals_from_mdriztab(asn_dict['iepw14030'])
SelectParamsCell ==
    /\ dpc = "fill"
    /\ dpos > Len(flcs)
    /\ selected_params' = GetValsFromMdriztab(ItemsOf(asn_dict, "iepw14030"))
    /\ dpc' = "loop"
    /\ UNCHANGED <<flcs, uncommented, asn_dict, dpos, input_images, dkey,
                   calls>>
    /\ UNCHANGED nonDrzVars

\* for asn_id in asn_dict: input_images = asn_dict[asn_id], then the
\* override line, when one is uncommented
LoopStart ==
    /\ dpc = "loop"
    /\ dkey <= Len(asn_dict)
    /\ input_images' = asn_dict[dkey].files
    /\ selected_params' =
          IF uncommented = "none" THEN selected_params
          ELSE [selected_params EXCEPT
                   ![uncommented] = OverrideValue[uncommented]]
    /\ dpc' = "getvals"
    /\ UNCHANGED <<flcs, uncommented, asn_dict, dpos, dkey, calls>>
    /\ UNCHANGED nonDrzVars

\* selected_params = get_vals_from_mdriztab(input_images)
GetVals ==
    /\ dpc = "getvals"
    /\ selected_params' = GetValsFromMdriztab(input_images)
    /\ dpc' = "drizzle"
    /\ UNCHANGED <<flcs, uncommented, asn_dict, dpos, input_images, dkey,
                   calls>>
    /\ UNCHANGED nonDrzVars

\* astrodrizzle.AstroDrizzle(input_images, output=f'{asn_id}_updated_wcs',
\* ..., **selected_params)
AstroDrizzle ==
    /\ dpc = "drizzle"
    /\ calls' = Append(calls,
                       [input  |-> input_images,
                        output |-> <<asn_dict[dkey].key, "_updated_wcs">>,
                        params |-> selected_params])
    /\ dkey' = dkey + 1
    /\ dpc' = "loop"
    /\ UNCHANGED <<flcs, uncommented, asn_dict, dpos, selected_params,
                   input_images>>
    /\ UNCHANGED nonDrzVars

NextDrz ==
    \/ FillAsnDict
    \/ SelectParamsCell
    \/ LoopStart
    \/ GetVals
    \/ AstroDrizzle

SpecDrz == InitDrz /\ [][NextDrz]_vars

----------------------------------------------------------------------------
(* The alignment cells of the sparse-field notebook *)

\* one TweakReg call of the notebook: the source-finding parameters, the
\* shift file ("" with shiftfile=False) and updatehdr
SparseCall(conv_width, dqbits, outshifts, updatehdr) ==
    [imagefindcfg |-> [threshold |-> "100", conv_width |-> conv_width,
                       dqbits |-> dqbits],
     outshifts |-> outshifts, updatehdr |-> updatehdr]

\* tests 1 to 3 and the final run, in the order of their cells
SparseCalls ==
    <<SparseCall("3.5", "None", "shift814_flc_test1.txt", FALSE),
      SparseCall("6.0", "None", "shift814_flc_test2.txt", FALSE),
      SparseCall("6.0", "0", "shift814_flc_test3.txt", FALSE),
      SparseCall("6.0", "0", "", TRUE)>>

\* the images TweakReg writes a fit residual plot for
PlotImages == {"j8xi0xs3q", "j8xi0xs6q", "j8xi0xsaq"}

\* the name of the residual plot of an image, by its characters
ResidualPng(img) ==
    CASE img = "j8xi0xs3q" ->
            <<"r", "e", "s", "i", "d", "u", "a", "l", "s", "_", "j", "8", "x",
            "i", "0", "x", "s", "3", "q", "_", "f", "l", "c", ".", "p", "n",
            "g">>
      [] img = "j8xi0xs6q" ->
            <<"r", "e", "s", "i", "d", "u", "a", "l", "s", "_", "j", "8", "x",
            "i", "0", "x", "s", "6", "q", "_", "f", "l", "c", ".", "p", "n",
            "g">>
      [] img = "j8xi0xsaq" ->
            <<"r", "e", "s", "i", "d", "u", "a", "l", "s", "_", "j", "8", "x",
            "i", "0", "x", "s", "a", "q", "_", "f", "l", "c", ".", "p", "n",
            "g">>

\* "testN_{}".format(png)
TestName(n, png) ==
    <<"t", "e", "s", "t">>
       \o <<CASE n = 1 -> "1" [] n = 2 -> "2" [] n = 3 -> "3">>
       \o <<"_">> \o png

\* the pattern matches "residual" anywhere in the name
GlobResidualPng_Anywhere(name) ==
    /\ \E k \in 0..(Len(name) - 8) :
          SubSeq(name, k + 1, k + 8)
             = <<"r", "e", "s", "i", "d", "u", "a", "l">>
    /\ Len(name) >= 3
    /\ SubSeq(name, Len(name) - 2, Len(name)) = <<"p", "n", "g">>

\* glob.glob("residual*png"): the name starts with "residual" and, after
\* it, ends with "png"
GlobResidualPng(name) ==
    /\ Len(name) >= 11
    /\ SubSeq(name, 1, 8) = <<"r", "e", "s", "i", "d", "u", "a", "l">>
    /\ SubSeq(name, Len(name) - 2, Len(name)) = <<"p", "n", "g">>

\* a png file of the directory
Png(name, run, renames) == [name |-> name, run |-> run, renames |-> renames]

\* a file written or moved to a name replaces the file of that name
WithFiles(dir, new) ==
    {f \in dir : \A g \in new : g.name # f.name} \cup new

InitSparse ==
    /\ scell = 1
    /\ sdir = {}
    /\ plotted = {}
    /\ flcwcs = "original"
    /\ drzwcs = "none"
    /\ FilterIdle /\ ParseIdle /\ AssocIdle /\ ConcIdle /\ NbIdle
    /\ ShiftIdle /\ HdrIdle /\ WcsIdle /\ DrzIdle

nonSparseVars == <<filterVars, parseVars, assocVars, concVars, nbVars,
                  shiftVars, hdrVars, wcsVars, drzVars>>

\* the header WCS is written whatever updatehdr is
RunSparseTweakReg_AlwaysUpdates ==
    /\ scell \in {1, 3, 5, 7}
    /\ \E P \in SUBSET PlotImages :
          LET run == (scell + 1) \div 2
          IN  /\ sdir' = WithFiles(sdir,
                            {Png(ResidualPng(img), run, 0) : img \in P})
              /\ plotted' = plotted \cup {<<run, img>> : img \in P}
    /\ flcwcs' = "tweaked"
    /\ scell' = scell + 1
    /\ UNCHANGED drzwcs
    /\ UNCHANGED nonSparseVars

\* tweakreg.TweakReg(input_files, imagefindcfg=..., updatehdr=...): the
\* residual plots of the fitted images are written, and the fit is written
\* to the headers only with updatehdr=True
RunSparseTweakReg ==
    /\ scell \in {1, 3, 5, 7}
    /\ \E P \in SUBSET PlotImages :
          LET run == (scell + 1) \div 2
          IN  /\ sdir' = WithFiles(sdir,
                            {Png(ResidualPng(img), run, 0) : img \in P})
              /\ plotted' = plotted \cup {<<run, img>> : img \in P}
    /\ flcwcs' = IF SparseCalls[(scell + 1) \div 2].updatehdr
                 THEN "tweaked" ELSE flcwcs
    /\ scell' = scell + 1
    /\ UNCHANGED drzwcs
    /\ UNCHANGED nonSparseVars

\* the rename cell after test N: every file of glob("residual*png") is
\* moved to "testN_" + its name
RenameResiduals ==
    /\ scell \in {2, 4, 6}
    /\ LET residual_pngs == {f \in sdir : GlobResidualPng(f.name)}
       IN  sdir' = WithFiles(sdir \ residual_pngs,
                             {Png(TestName(scell \div 2, f.name), f.run,
                                  f.renames + 1) : f \in residual_pngs})
    /\ scell' = scell + 1
    /\ UNCHANGED <<plotted, flcwcs, drzwcs>>
    /\ UNCHANGED nonSparseVars

\* astrodrizzle.AstroDrizzle(input_files, output="f814w", ...): the images
\* are combined with the WCS their headers hold
SparseAstroDrizzle ==
    /\ scell = 8
    /\ drzwcs' = flcwcs
    /\ scell' = 9
    /\ UNCHANGED <<sdir, plotted, flcwcs>>
    /\ UNCHANGED nonSparseVars

NextSparse == RunSparseTweakReg \/ RenameResiduals \/ SparseAstroDrizzle

SpecSparse == InitSparse /\ [][NextSparse]_vars

----------------------------------------------------------------------------
(* Vocabulary of the properties *)

Range(f) == {f[k] : k \in DOMAIN f}

Succeeded == pc = "done" /\ result = "ok"

\* the order_index of every region that contains the source
ContainingIdx(src, regs) == {k \in 1..Len(regs) : Contains(regs[k], src)}

SetMax(S) == CHOOSE m \in S : \A n \in S : n <= m

HasInclusion(regs) == \E k \in 1..Len(regs) : ~ regs[k].is_exclusion

HasExclusion(regs) == \E k \in 1..Len(regs) : regs[k].is_exclusion

\* positions of the sources whose verdict is included
KeptIdx == {k \in 1..Len(verdicts) : verdicts[k]}

\* the n-th smallest position of KeptIdx
NthKept(n) ==
    CHOOSE k \in KeptIdx : Cardinality({m \in KeptIdx : m <= k}) = n

----------------------------------------------------------------------------
(* C1 - last applicable region wins.  When the call has succeeded on a     *)
(* non-empty region list, every source contained in at least one region    *)
(* has the polarity of the highest-index region containing it as verdict   *)
(* (included for an inclusion region, excluded for an exclusion region);   *)
(* and a step that applies a region not containing the point leaves the    *)
(* point's state as it was.                                                *)
C1_LastRegionWins ==
    /\ [](Succeeded /\ regions # <<>> =>
            \A k \in 1..Len(sources) :
                LET idx == ContainingIdx(sources[k], regions)
                IN  idx # {} =>
                        verdicts[k] = ~ regions[SetMax(idx)].is_exclusion)
    /\ [][pc = "walk" /\ j <= Len(regions)
            /\ ~ Contains(regions[j], sources[i]) => state' = state]_vars

\* a source lies in an earlier and in a later region of opposite polarity,
\* and a region of the list that does not contain it has been applied
C1_Witness ==
    /\ Succeeded
    /\ \E k \in 1..Len(sources) :
          LET idx == ContainingIdx(sources[k], regions)
          IN  /\ \E a, b \in idx :
                    a < b /\ regions[a].is_exclusion # regions[b].is_exclusion
              /\ \E c \in 1..Len(regions) : c \notin idx

(* C2 - order dependence (P4).  For a list of two regions of opposite      *)
(* polarity, a source in both regions gets the polarity of the second      *)
(* region (kept, and in the output, when the exclusion comes first;        *)
(* dropped when the inclusion comes first) and the opposite verdict under  *)
(* the swapped list; a source outside the intersection has the same        *)
(* verdict under both orders.                                              *)
C2_OrderDependence ==
    Succeeded /\ Len(regions) = 2
        /\ regions[1].is_exclusion # regions[2].is_exclusion =>
    LET swapped == <<regions[2], regions[1]>>
    IN  \A k \in 1..Len(sources) :
            LET p == sources[k]
            IN  IF Contains(regions[1], p) /\ Contains(regions[2], p)
                THEN /\ verdicts[k] = regions[1].is_exclusion
                     /\ (p \in Range(returned)) = regions[1].is_exclusion
                     /\ Verdict(p, swapped) = ~ verdicts[k]
                     /\ (p \in Range(filter(sources, swapped)))
                            = ~ regions[1].is_exclusion
                ELSE /\ Verdict(p, swapped) = verdicts[k]
                     /\ (p \in Range(filter(sources, swapped)))
                            = (p \in Range(returned))

\* exclusion first, inclusion second, with one source in the overlap (kept)
\* and one source outside the overlap
C2_Witness ==
    /\ Succeeded /\ Len(regions) = 2 /\ Len(sources) = 2
    /\ regions[1].is_exclusion /\ ~ regions[2].is_exclusion
    /\ Contains(regions[1], sources[1]) /\ Contains(regions[2], sources[1])
    /\ ~ (Contains(regions[1], sources[2]) /\ Contains(regions[2], sources[2]))
    /\ sources[1] \in Range(returned)

(* C3 - baseline with an inclusion region present.  If the list holds at   *)
(* least one inclusion region, at whatever position, every source that no  *)
(* region of the list contains is dropped from the output.                 *)
C3_BaselineExcluded ==
    Succeeded /\ HasInclusion(regions) =>
        \A k \in 1..Len(sources) :
            ContainingIdx(sources[k], regions) = {} =>
                ~ verdicts[k] /\ sources[k] \notin Range(returned)

\* the only inclusion region is the middle one of three, between two
\* exclusion regions, and a source outside all three has been dropped
C3_Witness ==
    /\ Succeeded /\ Len(regions) = 3
    /\ regions[1].is_exclusion /\ ~ regions[2].is_exclusion
    /\ regions[3].is_exclusion
    /\ \E k \in 1..Len(sources) :
          ContainingIdx(sources[k], regions) = {} /\ ~ verdicts[k]

(* C4 - exclusion-only lists (P2).  If every region of a non-empty list is *)
(* an exclusion region, a source is kept exactly when no region contains   *)
(* it.                                                                     *)
C4_ExclusionOnly ==
    Succeeded /\ regions # <<>> /\ ~ HasInclusion(regions) =>
        \A k \in 1..Len(sources) :
            LET outside == ContainingIdx(sources[k], regions) = {}
            IN  /\ verdicts[k] = outside
                /\ (sources[k] \in Range(returned)) = outside

\* an exclusion-only list, one source kept and one source dropped
C4_Witness ==
    /\ Succeeded /\ regions # <<>> /\ ~ HasInclusion(regions)
    /\ Len(sources) = 2 /\ Len(returned) = 1
    /\ \E k \in 1..2 : ContainingIdx(sources[k], regions) = {}

(* C5 - inclusion-only lists (P3).  If every region of a non-empty list is *)
(* an inclusion region, a source is kept exactly when at least one region  *)
(* contains it.                                                            *)
C5_InclusionOnly ==
    Succeeded /\ regions # <<>> /\ ~ HasExclusion(regions) =>
        \A k \in 1..Len(sources) :
            LET inside == ContainingIdx(sources[k], regions) # {}
            IN  /\ verdicts[k] = inside
                /\ (sources[k] \in Range(returned)) = inside

\* an inclusion-only list, one source kept and one source dropped
C5_Witness ==
    /\ Succeeded /\ regions # <<>> /\ ~ HasExclusion(regions)
    /\ Len(sources) = 2 /\ Len(returned) = 1
    /\ \E k \in 1..2 : ContainingIdx(sources[k], regions) # {}

(* C6 - no regions (P1).  A call with the empty region list succeeds and   *)
(* returns exactly the input sources, in the same order.                   *)
C6_NoRegions ==
    pc = "done" /\ regions = <<>> => result = "ok" /\ returned = sources

\* two different sources passed through an empty region list
C6_Witness ==
    /\ pc = "done" /\ regions = <<>>
    /\ Len(sources) = 2 /\ sources[1] # sources[2]
    /\ Len(returned) = 2

(* C7 - the output is the sub-sequence of the kept sources.  When the call *)
(* has succeeded, the output has one element per source whose verdict is   *)
(* included, and its n-th element is the source at the n-th smallest kept  *)
(* position of the input: original relative order, nothing added.          *)
C7_OutputIsKeptSubsequence ==
    Succeeded =>
        /\ Len(verdicts) = Len(sources)
        /\ Len(returned) = Cardinality(KeptIdx)
        /\ \A n \in 1..Len(returned) : returned[n] = sources[NthKept(n)]

\* the first of two different sources is dropped, the second is the output
C7_Witness ==
    /\ Succeeded /\ regions # <<>> /\ Len(sources) = 2
    /\ sources[1] # sources[2]
    /\ returned = <<sources[2]>>

(* C8 - idempotence (P6).  When the call has succeeded, filtering its      *)
(* output again with the same region list gives the output back.           *)
C8_Idempotent ==
    Succeeded => filter(returned, regions) = returned

\* a run on a non-empty region list that kept two different sources
C8_Witness ==
    /\ Succeeded /\ regions # <<>> /\ Len(sources) = 2
    /\ Len(returned) = 2 /\ returned[1] # returned[2]

\* malformed geometry, read off the region's own parameters
Malformed(reg) ==
    LET s == reg.shape
    IN  \/ ~ s.finite
        \/ s.kind = "circle" /\ s.r <= 0
        \/ s.kind = "ellipse" /\ (s.rx <= 0 \/ s.ry <= 0)
        \/ s.kind = "box" /\ (s.w <= 0 \/ s.h <= 0)

HasMalformedRegion == \E k \in 1..Len(regions) : Malformed(regions[k])

HasNonFiniteSource == \E k \in 1..Len(sources) : ~ sources[k].finite

----------------------------------------------------------------------------
\* the point lies on the segment a-b: it is a + (num/den)(b - a) for a
\* fraction num/den between 0 and 1
OnSegment(a, b, x, y) ==
    \E den \in 1..8 : \E num \in 0..den :
        /\ den * (x - a[1]) = num * (b[1] - a[1])
        /\ den * (y - a[2]) = num * (b[2] - a[2])

\* the point lies exactly on the boundary of the shape (circle, axis-aligned
\* box, polygon), read off the shape's own parameters
OnBoundary(s, x, y) ==
    LET dx == x - s.cx
        dy == y - s.cy
        ax == IF dx < 0 THEN 0 - dx ELSE dx
        ay == IF dy < 0 THEN 0 - dy ELSE dy
        n  == Len(s.pts)
    IN  \/ s.kind = "circle" /\ dx * dx + dy * dy = s.r * s.r
        \/ s.kind = "box" /\ s.angle = 0
             /\ \/ 2 * ax = s.w /\ 2 * ay <= s.h
                \/ 2 * ay = s.h /\ 2 * ax <= s.w
        \/ s.kind = "polygon"
             /\ \E k \in 1..n :
                   OnSegment(s.pts[k], s.pts[IF k = n THEN 1 ELSE k + 1], x, y)

\* the regions of the list on whose boundary the source lies
BoundaryIdx(src, regs) ==
    {k \in 1..Len(regs) : OnBoundary(regs[k].shape, src.x, src.y)}

(* C14 - boundary inclusion (P5).  A source lying exactly on the boundary  *)
(* of a circle (squared distance equal to the squared radius), of an       *)
(* axis-aligned box (offset equal to half the width or half the height) or *)
(* of a polygon (edge or vertex) is contained in that region: when the     *)
(* call has succeeded and that region is the last of the list to touch the *)
(* source, the source has that region's polarity as verdict, and it is in  *)
(* the output exactly when the region is an inclusion region.              *)
C14_BoundaryInclusive ==
    Succeeded =>
        \A k \in 1..Len(sources) : \A m \in BoundaryIdx(sources[k], regions) :
            /\ Contains(regions[m], sources[k])
            /\ (\A n \in (m + 1)..Len(regions) :
                    ~ Contains(regions[n], sources[k]))
                => /\ verdicts[k] = ~ regions[m].is_exclusion
                   /\ (sources[k] \in Range(returned))
                          = ~ regions[m].is_exclusion

\* a circle-boundary source kept by an inclusion circle, and a source on a
\* polygon edge dropped by an exclusion polygon that comes last
C14_Witness ==
    /\ Succeeded /\ Len(sources) = 2 /\ Len(regions) = 2
    /\ regions[1].shape.kind = "circle" /\ ~ regions[1].is_exclusion
    /\ regions[2].shape.kind = "polygon" /\ regions[2].is_exclusion
    /\ 1 \in BoundaryIdx(sources[1], regions)
    /\ 2 \in BoundaryIdx(sources[2], regions)
    /\ returned = <<sources[1]>>

(* C15 - no side effects.  No step of a call, successful or failing,       *)
(* changes the input source sequence or the region list, and every source  *)
(* handed back is one of the input sources with the same coordinates, flux *)
(* and identifier.                                                         *)
C15_NoSideEffects ==
    /\ [][sources' = sources /\ regions' = regions]_vars
    /\ [](pc = "done" =>
            \A n \in 1..Len(returned) :
                \E k \in 1..Len(sources) :
                    /\ returned[n].id = sources[k].id
                    /\ returned[n].x = sources[k].x
                    /\ returned[n].y = sources[k].y
                    /\ returned[n].flux = sources[k].flux)

\* a successful call that handed back two sources
C15_Witness ==
    /\ Succeeded /\ regions # <<>>
    /\ Len(sources) = 2 /\ Len(returned) = 2
    /\ returned[1].id # returned[2].id

\* evaluations still to be made: (source, region) pairs not yet applied,
\* plus the steps around them
Remaining ==
    LET n == Len(sources)
        m == Len(regions)
    IN  CASE pc = "done"  -> 0
          [] pc = "start" -> n * (m + 2) + 3
          [] pc = "point" -> (n + 1 - i) * (m + 2) + 1
          [] pc = "walk"  -> (n - i) * (m + 2) + (m + 1 - j) + 2

(* C17 - termination.  Every step of a call strictly decreases a natural   *)
(* number, a call that has not ended can always take a step, and a call    *)
(* that has ended holds a source sequence or one of the two errors; while  *)
(* a point is walked the region index only moves forward by one and the    *)
(* point index never moves back, so each source meets each region at most  *)
(* once.                                                                   *)
C17_Terminates ==
    /\ [][Remaining' < Remaining]_vars
    /\ [](Remaining >= 0)
    /\ [](pc # "done" => ENABLED Next)
    /\ [](pc = "done" =>
            result \in {"ok", "InvalidRegionError", "InvalidSourceError"})
    /\ [][i' >= i /\ (pc = "walk" /\ pc' = "walk" => i' = i /\ j' = j + 1)
            /\ (pc = "walk" /\ pc' = "point" => i' = i + 1)]_vars

\* a call over two sources and three regions has ended with a source list
C17_Witness ==
    /\ Succeeded /\ Len(sources) = 2 /\ Len(regions) = 3
    /\ Len(verdicts) = 2

----------------------------------------------------------------------------
ParseDone == rpos > Len(rfile)

\* the lines of the file that name one of the four allowed shapes
IsAllowedShape(l) == l.word \in {"circle", "ellipse", "box", "polygon"}

IsOtherShape(l) ==
    l.word \notin {"circle", "ellipse", "box", "polygon", "#", "global",
                   "image"}

\* the file without the lines that name a shape of another kind
WithoutOtherShapes(lines) == SelectSeq(lines, LAMBDA l : ~ IsOtherShape(l))

\* finite sources to try a Region List on
ProbeSources ==
    <<Source(3, 2, 10, 1), Source(5, 4, 20, 2), Source(0, 6, 30, 3),
      Source(2, 4, 40, 4)>>

(* C11 - unsupported shapes are dropped, not errors.  A line naming a      *)
(* shape other than circle, ellipse, box, polygon never stops the reading; *)
(* once the file is read, the Region List is the one of the file with      *)
(* those lines removed, in file order; the baseline is "excluded" exactly  *)
(* when an allowed shape without minus sign is in the file (an unsigned    *)
(* unsupported shape does not count); and filtering with it gives the same *)
(* output as filtering with the list of the cleaned file.                  *)
C11_UnsupportedShapesDropped ==
    /\ ~ ParseDone => ENABLED NextParse
    /\ ParseDone =>
        LET cleaned == ParseFile(WithoutOtherShapes(rfile))
        IN  /\ rlist = cleaned
            /\ rignored = Cardinality({k \in 1..Len(rfile) :
                                          IsOtherShape(rfile[k])})
            /\ DefaultMembership(rlist) =
                  ~ \E k \in 1..Len(rfile) :
                        IsAllowedShape(rfile[k]) /\ rfile[k].sign = ""
            /\ filter(ProbeSources, rlist) = filter(ProbeSources, cleaned)

\* a file with an exclusion region and an unsigned unsupported shape has
\* been read: one region, one shape ignored, baseline still "included"
C11_Witness ==
    /\ ParseDone /\ Len(rlist) = 1 /\ rlist[1].is_exclusion
    /\ rignored = 1
    /\ \E k \in 1..Len(rfile) : IsOtherShape(rfile[k]) /\ rfile[k].sign = ""
    /\ DefaultMembership(rlist)

\* the positions of the lines that name an allowed shape
AllowedIdx == {k \in 1..Len(rfile) : IsAllowedShape(rfile[k])}

NthAllowed(n) ==
    CHOOSE k \in AllowedIdx : Cardinality({m \in AllowedIdx : m <= k}) = n

(* C12 - polarity comes from the line prefix only.  Once the file is read, *)
(* the Region List has one region per allowed shape line, in the order of  *)
(* the lines (comment lines, the global line and the coordinate-system     *)
(* line give no region); the n-th region has the kind of the n-th such     *)
(* line, and it is an exclusion region exactly when that line starts with  *)
(* a minus sign.                                                           *)
C12_PolarityFromPrefix ==
    ParseDone =>
        /\ Len(rlist) = Cardinality(AllowedIdx)
        /\ \A n \in 1..Len(rlist) :
              LET l == rfile[NthAllowed(n)]
              IN  /\ rlist[n].shape.kind = l.word
                  /\ rlist[n].is_exclusion = (l.sign = "-")

\* a file whose coordinate-system line is followed by an exclusion and then
\* an inclusion of different kinds
C12_Witness ==
    /\ ParseDone /\ Len(rfile) = 3 /\ Len(rlist) = 2
    /\ rfile[1].word = "image"
    /\ rlist[1].is_exclusion /\ ~ rlist[2].is_exclusion
    /\ rlist[1].shape.kind # rlist[2].shape.kind

----------------------------------------------------------------------------
\* the line of the exclusions file written for an image
AssocLine(img) == IF assoc[1][1] = img THEN assoc[1] ELSE assoc[2]

\* the (image, extension) has no region file: token missing or 'None'
NoRegionFile(p) ==
    \/ Len(AssocLine(p[1])) < p[2] + 1
    \/ AssocLine(p[1])[p[2] + 1] = "None"

\* the run gives regions for SCI1 of this image and for nothing else
OnlySCI1Of(img) ==
    \A p \in Images \X Exts : NoRegionFile(p) <=> p # <<img, 1>>

(* C13 - region files go with extensions by position.  For every (image,   *)
(* extension) done: when the token at position extension + 1 of the        *)
(* image's line is missing or 'None' the catalog written is the detected   *)
(* catalog, unchanged; otherwise it is the detected catalog filtered with  *)
(* the regions of the file named at that position.  So when regions are    *)
(* given for SCI1 of one image only, SCI2 of that image and both           *)
(* extensions of the other image keep their detected catalogs.             *)
C13_PositionalMapping ==
    /\ \A p \in (Images \X Exts) \ todo :
          IF NoRegionFile(p)
          THEN outcat[p] = catalogs[p]
          ELSE outcat[p] =
                  filter(catalogs[p],
                         ParseFile(RegionFiles[AssocLine(p[1])[p[2] + 1]]))
    /\ \A img \in Images :
          OnlySCI1Of(img) =>
              \A p \in (Images \X Exts) \ todo :
                  p # <<img, 1>> => outcat[p] = catalogs[p]

\* the line "jcdua3f4q_flc.fits jcdua3f4q_sci1_exclude.reg" has been applied
\* to all catalogs: SCI1 lost sources, SCI2 did not
C13_Witness ==
    /\ todo = {}
    /\ assoc[1] = <<"jcdua3f4q_flc.fits", "jcdua3f4q_sci1_exclude.reg">>
    /\ OnlySCI1Of("jcdua3f4q_flc.fits")
    /\ Len(outcat[<<"jcdua3f4q_flc.fits", 1>>])
          < Len(catalogs[<<"jcdua3f4q_flc.fits", 1>>])
    /\ outcat[<<"jcdua3f4q_flc.fits", 2>>]
          = catalogs[<<"jcdua3f4q_flc.fits", 2>>]

----------------------------------------------------------------------------
(* C16 - per-point independence under concurrency.  Whatever the           *)
(* interleaving of the workers, a worker that has applied the first n      *)
(* regions to its point holds the state the sequential walk has after n    *)
(* regions; and the assembled output is the output of the sequential       *)
(* filter, every source's verdict being the verdict it gets when it is     *)
(* the only source of the input.                                           *)
C16_ConcurrentEqualsSequential ==
    /\ pc = "workers" =>
          \A k \in 1..Len(sources) :
              wj[k] >= 1 =>
                  wst[k] = Walk(DefaultMembership(regions),
                                SubSeq(regions, 1, wj[k] - 1), sources[k], 1)
    /\ Succeeded =>
          /\ returned = filter(sources, regions)
          /\ \A k \in 1..Len(sources) :
                verdicts[k] = (filter(<<sources[k]>>, regions) # <<>>)

\* two workers have each applied two regions to their points, the output has
\* been assembled, and the two sources got different verdicts
C16_Witness ==
    /\ Succeeded /\ Len(sources) = 2 /\ Len(regions) = 2
    /\ wj = <<3, 3>>
    /\ verdicts[1] # verdicts[2]

----------------------------------------------------------------------------
(* C18 - no run of the DS9-regions notebook changes the images.  Every     *)
(* TweakReg call of the notebook has updatehdr = False, and after any      *)
(* sequence of TweakReg cells, in any order and with repetitions, the      *)
(* header WCS of every FLC file is the downloaded one.                     *)
C18_HeadersUntouched ==
    /\ \A c \in DOMAIN TweakRegCalls : TweakRegCalls[c].updatehdr = FALSE
    /\ \A f \in Images : hdrwcs[f] = "downloaded"

\* the five TweakReg cells have been run in the order of the notebook
C18_Witness ==
    /\ history = <<1, 2, 3, 4, 5>>
    /\ TweakRegCalls[2].exclusions = "exclusions.txt"
    /\ TweakRegCalls[5].exclusions = "inclusions_no_box_first.txt"
    /\ hdrwcs["jcdua3f4q_flc.fits"] = "downloaded"

----------------------------------------------------------------------------
\* the numbers of the lines of the shift file that contain 'nan'
NanLines ==
    {n \in 1..Len(shift) :
        \E k \in 1..(Len(shift[n]) - 2) :
            SubSeq(shift[n], k, k + 2) = <<"n", "a", "n">>}

(* C19 - the shift-file check.  The cell never hangs; when it has raised   *)
(* ValueError some line of the shift file contains 'nan' and the number    *)
(* in the message is the 1-based number of the first such line; when it    *)
(* has completed, or a later cell has run, no line contains 'nan'.         *)
C19_ShiftFileCheck ==
    /\ spc = "check" => ENABLED NextShift
    /\ spc = "raised" =>
          /\ NanLines # {}
          /\ message \in NanLines
          /\ \A n \in NanLines : message <= n
          /\ ~ ENABLED NextShift
    /\ spc \in {"passed", "later"} => NanLines = {} /\ message = 0

\* the check has raised on line 2 of a file whose line 3 contains 'nan' too
\* and whose line 1 has the letters n, a, n without being 'nan'
C19_Witness ==
    /\ spc = "raised" /\ message = 2
    /\ NanLines = {2, 3}
    /\ shift[1] = <<"n", "a", " ", "n">>

----------------------------------------------------------------------------
\* the positions of the HDRLET extensions of the f-th FLC file
HdrletIdx(f) == {k \in 1..Len(hdulists[f]) : hdulists[f][k].name = "HDRLET"}

(* C20 - correct_hdrlet_extvers renumbers the headerlets.  In every file   *)
(* the function has run on, the extensions and their names are those of    *)
(* the downloaded file, the k-th extension named HDRLET in file order has  *)
(* EXTVER = k, and every other extension has the EXTVER it was downloaded  *)
(* with.                                                                   *)
C20_HeaderletsRenumbered ==
    \A f \in 1..(fidx - 1) :
        /\ Len(hdulists[f]) = Len(downloaded[f])
        /\ \A k \in 1..Len(hdulists[f]) :
              /\ hdulists[f][k].name = downloaded[f][k].name
              /\ IF k \in HdrletIdx(f)
                 THEN hdulists[f][k].extver =
                         Cardinality({m \in HdrletIdx(f) : m <= k})
                 ELSE hdulists[f][k].extver = downloaded[f][k].extver

\* the function has run on both files; the first one was downloaded with
\* two headerlets of the same EXTVER around a science extension of EXTVER 2
C20_Witness ==
    /\ fidx = 3
    /\ downloaded[1] = <<Hdu("HDRLET", 5), Hdu("SCI", 2), Hdu("HDRLET", 5)>>
    /\ hdulists[1] = <<Hdu("HDRLET", 1), Hdu("SCI", 2), Hdu("HDRLET", 2)>>
    /\ HdrletIdx(2) # {}

----------------------------------------------------------------------------
\* the HDRLET extensions of the file with a given EXTVER
HdrletsWithExtver(v) ==
    {k \in 1..Len(wfile) : wfile[k].name = "HDRLET" /\ wfile[k].extver = v}

(* C21 - index-to-EXTVER correspondence.  Once the list has been computed, *)
(* and after any sequence of lookups and restores made with archive=False, *)
(* the list has one name per HDRLET extension and the name at 0-based      *)
(* index n is the WCSNAME of the one HDRLET extension with EXTVER n + 1;   *)
(* so a chosen_ext obtained as new_wcsnames.index(name) + 1 is the EXTVER  *)
(* of a HDRLET extension whose WCSNAME is that name.                       *)
C21_IndexIsExtver ==
    wpc \in {"names", "cells", "ValueError"} =>
        /\ Len(new_wcsnames) =
              Cardinality({k \in 1..Len(wfile) : wfile[k].name = "HDRLET"})
        /\ \A n \in 0..(Len(new_wcsnames) - 1) :
              /\ Cardinality(HdrletsWithExtver(n + 1)) = 1
              /\ \A k \in HdrletsWithExtver(n + 1) :
                    wfile[k].wcsname = new_wcsnames[n + 1]
        /\ wanted # "" =>
              /\ HdrletsWithExtver(chosen_ext) # {}
              /\ \A k \in HdrletsWithExtver(chosen_ext) :
                    wfile[k].wcsname = wanted

\* after a restore of another solution, the a priori solution is looked up
\* in a file that holds three headerlets and whose first one is another
C21_Witness ==
    /\ wpc = "cells" /\ restored # 0 /\ restored # chosen_ext
    /\ wanted = "IDC_2731450pi-GSC240"
    /\ chosen_ext = 3
    /\ Len(new_wcsnames) = 3

(* C22 - applying a headerlet activates it.  After any sequence of         *)
(* restores, the WCSNAME of extension ('SCI', 1) is the WCSNAME of the     *)
(* HDRLET extension given as hdrext in the last restore.                   *)
C22_RestoreActivates ==
    restored # 0 =>
        /\ HdrletsWithExtver(restored) # {}
        /\ \A k \in HdrletsWithExtver(restored) :
              wfile[k].wcsname = CurrentWcs(wfile)

\* the distortion-only solution has been restored over the solution that
\* was active in the downloaded file
C22_Witness ==
    /\ restored # 0
    /\ CurrentWcs(wfile) = "IDC_2731450pi"
    /\ wanted = "IDC_2731450pi"
    /\ wcells >= 2

\* the 0-based indices of the names that contain both 'IDC' and 'GSC240'
MatchingIdx ==
    {n \in 0..(Len(new_wcsnames) - 1) :
        /\ \E k \in 1..(Len(Chars(new_wcsnames[n + 1])) - 2) :
              SubSeq(Chars(new_wcsnames[n + 1]), k, k + 2) = <<"I", "D", "C">>
        /\ \E k \in 1..(Len(Chars(new_wcsnames[n + 1])) - 5) :
              SubSeq(Chars(new_wcsnames[n + 1]), k, k + 5)
                 = <<"G", "S", "C", "2", "4", "0">>}

(* C27 - programmatic headerlet choice.  A run of the selection cell sets  *)
(* chosen_ext to 1 plus the smallest index whose name contains both 'IDC'  *)
(* and 'GSC240'; when no name matches, chosen_ext keeps its value; in both *)
(* cases the cell prints chosen_ext and raises no error.                   *)
C27_FirstMatchChosen ==
    [][SelectIdcGsc240 =>
          /\ MatchingIdx # {} =>
                /\ chosen_ext' - 1 \in MatchingIdx
                /\ \A n \in MatchingIdx : chosen_ext' - 1 <= n
          /\ MatchingIdx = {} => chosen_ext' = chosen_ext
          /\ printed' = chosen_ext'
          /\ wpc' = "cells"]_vars

\* the cell has printed extension 2 for a list whose names at indices 1 and
\* 2 both match and whose name at index 0 has 'GSC240' without 'IDC'
C27_Witness ==
    /\ printed = 2 /\ chosen_ext = 2
    /\ MatchingIdx = {1, 2}
    /\ new_wcsnames[1] = "OPUS-GSC240"

----------------------------------------------------------------------------
(* C23 - overrides reach AstroDrizzle.  When an override line of the       *)
(* drizzle loop is uncommented, every AstroDrizzle call of the loop gets   *)
(* the overridden value for that parameter.                                *)
C23_OverrideReachesAstroDrizzle ==
    \A n \in 1..Len(calls) :
        uncommented # "none" =>
            calls[n].params[uncommented] = OverrideValue[uncommented]

\* the places (item, position) of asn_dict that hold a file
PlacesOf(file) ==
    {<<n, m>> \in (1..Len(asn_dict)) \X (1..Len(flcs)) :
        m <= Len(asn_dict[n].files) /\ asn_dict[n].files[m] = file}

\* the key the claim gives a file
KeyOfFile(flc) ==
    IF flc.asn_id = "NONE" THEN Lower(flc.rootname) ELSE Lower(flc.asn_id)

DrizzleLoopDone == dpc = "loop" /\ dkey > Len(asn_dict)

(* C24 - one drizzle per association.  Once asn_dict is filled, its keys   *)
(* are distinct and every FLC file is in exactly one list, once, under the *)
(* key lowercase(ASN_ID), or lowercase(ROOTNAME) when ASN_ID is 'NONE',    *)
(* and the lists hold nothing else; the drizzle loop has called            *)
(* AstroDrizzle once for each key it has passed, with the files of that    *)
(* key and the output name '<key>_updated_wcs', and when it ends it has    *)
(* passed every key.                                                       *)
C24_OneDrizzlePerAssociation ==
    /\ dpc # "fill" =>
          /\ \A n, m \in 1..Len(asn_dict) :
                asn_dict[n].key = asn_dict[m].key => n = m
          /\ \A f \in 1..Len(flcs) :
                /\ Cardinality(PlacesOf(flcs[f].file)) = 1
                /\ \A pl \in PlacesOf(flcs[f].file) :
                      asn_dict[pl[1]].key = KeyOfFile(flcs[f])
          /\ \A n \in 1..Len(asn_dict) :
                /\ asn_dict[n].files # <<>>
                /\ \A m \in 1..Len(asn_dict[n].files) :
                      \E f \in 1..Len(flcs) :
                          flcs[f].file = asn_dict[n].files[m]
          /\ Len(calls) = dkey - 1
          /\ \A n \in 1..Len(calls) :
                /\ calls[n].input = asn_dict[n].files
                /\ calls[n].output = <<asn_dict[n].key, "_updated_wcs">>
    /\ DrizzleLoopDone => Len(calls) = Len(asn_dict)

\* three files, two of association IEPW14030 and one of none, have been
\* drizzled in two calls
C24_Witness ==
    /\ DrizzleLoopDone
    /\ Len(flcs) = 3 /\ Len(calls) = 2
    /\ calls[1].output = <<"iepw14030", "_updated_wcs">>
    /\ calls[1].input = <<"iepw14g4q_flc.fits", "iepw14g8q_flc.fits">>
    /\ calls[2].output = <<"iepw14g6q", "_updated_wcs">>

----------------------------------------------------------------------------
(* C25 - the header update happens once and last.  The three test runs     *)
(* have updatehdr=False and the header WCS of the FLC files is the         *)
(* original one until the final run; the final run has updatehdr=True and  *)
(* the source-finding parameters of test 3, the header WCS is the tweaked  *)
(* one from then on, and AstroDrizzle runs on the tweaked WCS.             *)
C25_HeaderUpdatedOnceAndLast ==
    /\ \A n \in 1..3 : SparseCalls[n].updatehdr = FALSE
    /\ SparseCalls[4].updatehdr = TRUE
    /\ SparseCalls[4].imagefindcfg = SparseCalls[3].imagefindcfg
    /\ scell <= 7 => flcwcs = "original" /\ drzwcs = "none"
    /\ scell > 7 => flcwcs = "tweaked"
    /\ drzwcs # "none" => scell = 9 /\ drzwcs = "tweaked"

\* all cells have run: AstroDrizzle has combined the images of the header
\* WCS written by the final run, after three tests that wrote plots
C25_Witness ==
    /\ scell = 9 /\ drzwcs = "tweaked"
    /\ \A n \in 1..3 : \E img \in PlotImages : <<n, img>> \in plotted

(* C26 - residual plots get unique names.  Once the rename cell of test N  *)
(* has run, every plot written by test N is in the directory under the     *)
(* name 'testN_<name>', renamed exactly once, whatever cells ran after     *)
(* it; no two files share a name and no file has been renamed twice.       *)
C26_ResidualPlotsKept ==
    /\ \A pl \in plotted :
          (pl[1] <= 3 /\ scell > 2 * pl[1]) =>
              \E f \in sdir :
                  /\ f.name = TestName(pl[1], ResidualPng(pl[2]))
                  /\ f.run = pl[1]
                  /\ f.renames = 1
    /\ \A f, g \in sdir : f.name = g.name => f = g
    /\ \A f \in sdir : f.renames <= 1

\* the three rename cells have run and the directory holds the nine plots
\* of three images in three tests
C26_Witness ==
    /\ scell = 7
    /\ Cardinality(sdir) = 9
    /\ \A f \in sdir : f.renames = 1

----------------------------------------------------------------------------
(* Relations between calls of filter on related region lists *)

\* the region list regs read in the order given by f
Permuted(regs, f) == [k \in 1..Len(regs) |-> regs[f[k]]]

\* the bijections of 1..n
Perms(n) ==
    {f \in [1..n -> 1..n] : \A a, b \in 1..n : a # b => f[a] # f[b]}

\* regs with reg put in after its first p regions
InsertAt(regs, p, reg) ==
    SubSeq(regs, 1, p) \o <<reg>> \o SubSeq(regs, p + 1, Len(regs))

\* a call on a list of circle, box and polygon regions of either polarity,
\* or on a list holding a circle of radius zero
InitRelated ==
    /\ sources \in SeqsUpTo(SourcePool, MaxSources)
    /\ regions \in SeqsUpTo(BoundaryRegionPool, MaxRelatedRegions)
    /\ pc = "start"
    /\ default = TRUE
    /\ i = 1
    /\ j = 1
    /\ state = TRUE
    /\ verdicts = <<>>
    /\ out = <<>>
    /\ result = "none"
    /\ returned = <<>>
    /\ NonFilterIdle

SpecRelated == InitRelated /\ [][Next]_vars

\* the subsequence of the sources that reg contains
SourcesIn(srcs, reg) ==
    LET inside(src) == Contains(reg, src) IN SelectSeq(srcs, inside)

RECURSIVE IsSubSeq(_, _)
\* a is b with some of its elements left out
IsSubSeq(a, b) ==
    IF a = <<>> THEN TRUE
    ELSE IF b = <<>> THEN FALSE
    ELSE IF Head(a) = Head(b) THEN IsSubSeq(Tail(a), Tail(b))
    ELSE IsSubSeq(a, Tail(b))

\* the valid regions of the given polarity that a list may be given
ValidRegionsOf(excl) ==
    {reg \in BoundaryRegionPool : ValidRegion(reg) /\ reg.is_exclusion = excl}

SamePolarity(regs) == ~ (HasInclusion(regs) /\ HasExclusion(regs))

(* C28 - same-polarity lists are order-insensitive.  When the call has     *)
(* succeeded on a list whose regions are all inclusion or all exclusion    *)
(* regions, filter gives the same output on every permutation of the list, *)
(* and on the list with any one of its regions listed a second time, at    *)
(* any position.                                                           *)
C28_SamePolarityOrderInsensitive ==
    Succeeded /\ regions # <<>> /\ SamePolarity(regions) =>
        /\ \A f \in Perms(Len(regions)) :
              filter(sources, Permuted(regions, f)) = returned
        /\ \A k \in 1..Len(regions) : \A p \in 0..Len(regions) :
              filter(sources, InsertAt(regions, p, regions[k])) = returned

\* two different inclusion regions, a source in the first region only and a
\* source in neither: the first is kept, the second dropped
C28_Witness ==
    /\ Succeeded /\ Len(regions) = 2 /\ ~ HasExclusion(regions)
    /\ regions[1] # regions[2] /\ Len(sources) = 2
    /\ Contains(regions[1], sources[1])
    /\ ~ Contains(regions[2], sources[1])
    /\ ContainingIdx(sources[2], regions) = {}
    /\ returned = <<sources[1]>>


(* C29 - adding an inclusion region flips the baseline.  When the call has *)
(* succeeded on a list made of one or more exclusion regions followed by   *)
(* one inclusion region R, the output is exactly the sources that R        *)
(* contains, in input order; every source that no region contains was in   *)
(* the output of the list without R and is not in the output now.          *)
C29_InclusionFlipsBaseline ==
    LET n == Len(regions)
        before == SubSeq(regions, 1, n - 1)
    IN  Succeeded /\ n >= 2 /\ ~ regions[n].is_exclusion
            /\ ~ HasInclusion(before) =>
            /\ returned = SourcesIn(sources, regions[n])
            /\ \A k \in 1..Len(sources) :
                  ContainingIdx(sources[k], regions) = {} =>
                      /\ sources[k] \in Range(filter(sources, before))
                      /\ sources[k] \notin Range(returned)

\* two exclusion regions and then an inclusion region; of two sources, one
\* lies outside all three regions and is dropped, the other lies in the
\* inclusion region and is kept
C29_Witness ==
    /\ Succeeded /\ Len(regions) = 3 /\ Len(sources) = 2
    /\ regions[1].is_exclusion /\ regions[2].is_exclusion
    /\ ~ regions[3].is_exclusion
    /\ ContainingIdx(sources[1], regions) = {}
    /\ Contains(regions[3], sources[2])
    /\ returned = <<sources[2]>>

(* C30 - exclusion is monotone.  When the call has succeeded on a list     *)
(* (the empty list included) and on valid sources, putting one more valid  *)
(* exclusion region in at any position gives an output that is a           *)
(* sub-sequence of the output without it: no source is added.              *)
C30_ExclusionMonotone ==
    Succeeded /\ AllValidSources(sources) =>
        \A reg \in ValidRegionsOf(TRUE) : \A p \in 0..Len(regions) :
            LET with == filter(sources, InsertAt(regions, p, reg))
            IN  /\ IsSubSeq(with, returned)
                /\ Range(with) \subseteq Range(returned)

\* a run on a list that starts with an inclusion region and kept both of
\* two different sources; an exclusion region that contains the first of
\* them leaves the output alone when put in front of the list and drops
\* that source when put at its end
C30_Witness ==
    /\ Succeeded /\ regions # <<>> /\ ~ regions[1].is_exclusion
    /\ Len(sources) = 2 /\ sources[1] # sources[2] /\ returned = sources
    /\ \E reg \in ValidRegionsOf(TRUE) :
          /\ Contains(reg, sources[1]) /\ ~ Contains(reg, sources[2])
          /\ filter(sources, InsertAt(regions, 0, reg)) = returned
          /\ filter(sources, InsertAt(regions, Len(regions), reg))
                 = <<sources[2]>>


====
